---- MODULE Spec2Model ----
(***************************************************************************)
(* A model of the videomancer-sdk package format consumer                  *)
(* (lzx/videomancer/vmprog_format.hpp, vmprog_stream_reader.hpp).          *)
(*                                                                         *)
(* Its first three specifications are:                                     *)
(*   SpecVal  the structural validators, as pure functions of a record     *)
(*            and the surrounding file size;                               *)
(*   SpecPkg  the stateless package-level entry points over a whole file   *)
(*            (buffer-based and stream-based);                             *)
(*   Spec     the vmprog_package_reader object and the stream operations   *)
(*            it issues.                                                   *)
(*                                                                         *)
(* SpecHash, SpecDisplay, SpecCurve and SpecFpga follow: the hash and TOC   *)
(* layer, the parameter utilities (vmprog_parameter_utils.hpp) and the     *)
(* register controller (videomancer_fpga_controller.hpp).                  *)
(*                                                                         *)
(* Result codes are the enumerator names of vmprog_validation_result.      *)
(* Unsigned 32-bit arithmetic of the source is kept (modulo 2^32).         *)
(***************************************************************************)
EXTENDS Integers, Sequences, FiniteSets, TLC

VARIABLES
    call,        \* the validator invocation under evaluation (SpecVal)
    ret,         \* its result code, "pending" before the call returns
    stream_,     \* vmprog_package_reader::stream_
    file_size_,  \* vmprog_package_reader::file_size_
    is_open_,    \* vmprog_package_reader::is_open_
    header_,     \* vmprog_package_reader::header_
    toc_,        \* vmprog_package_reader::toc_
    last,        \* the last package-level operation: inputs, result, stream log
    m_shadow,    \* videomancer_fpga_controller: the shadow registers, by address
    tail_pad,    \* the byte that follows m_shadow_video_timing_id in the object
    m_fpga       \* the videomancer_fpga behind m_fpga: chip select, transfers

vars ==
    <<call, ret, stream_, file_size_, is_open_, header_, toc_, last, m_shadow,
      tail_pad, m_fpga>>

-----------------------------------------------------------------------------
(* Program constants                                                       *)

\* 'VMPG', vmprog_header_v1_0::expected_magic = 0x47504D56
expected_magic == 1196445014

max_file_size == 1048576

header_struct_size == 64

toc_entry_struct_size == 64

signed_descriptor_struct_size == 332

program_config_struct_size == 7372

max_artifacts == 8

max_value_labels == 16

num_parameters == 12

VMPROG_SIGNATURE_SIZE == 64

vmprog_stream_max_toc_entries == 16

max_header_toc_count == 256

\* vmprog_toc_entry_type_v1_0
type_none == 0

type_config == 1

type_signed_descriptor == 2

type_signature == 3

type_fpga_bitstream == 4

type_bitstream_hd_dual == 10

\* vmprog_header_flags_v1_0::signed_pkg
signed_pkg == 1

\* last enumerators of vmprog_parameter_id_v1_0 and
\* vmprog_parameter_control_mode_v1_0
linear_potentiometer_12 == 12

expo_in_out == 35

-----------------------------------------------------------------------------
(* uint32_t                                                                *)
(*                                                                         *)
(* The fields that enter wrap-sensitive arithmetic (file_size, offset,     *)
(* size, toc_offset, toc_bytes, toc_count) are kept at their full 32-bit   *)
(* width as two 16-bit halves <<hi, lo>>: the model checker's integers are *)
(* themselves 32-bit signed and cannot hold 2^32.                          *)

Half == 2^16

\* the uint32_t with value n, for 0 <= n < 2^31
V32(n) == <<n \div Half, n % Half>>

\* the largest uint32_t, 0xFFFFFFFF
Max32 == <<Half - 1, Half - 1>>

Lt32(a, b) == a[1] < b[1] \/ (a[1] = b[1] /\ a[2] < b[2])

Le32(a, b) == a = b \/ Lt32(a, b)

Gt32(a, b) == Lt32(b, a)

Ge32(a, b) == Le32(b, a)

\* a + b, a - b modulo 2^32
Add32(a, b) ==
    LET lo == a[2] + b[2]
        hi == a[1] + b[1] + (lo \div Half)
    IN  <<hi % Half, lo % Half>>

Sub32(a, b) ==
    LET lo == a[2] - b[2]
        hi == a[1] - b[1] - (IF lo < 0 THEN 1 ELSE 0)
    IN  <<hi % Half, lo % Half>>

\* a * k modulo 2^32, for a small multiplier k (a struct size)
Mul32(a, k) ==
    LET lo == a[2] * k
        hi == a[1] * k + (lo \div Half)
    IN  <<hi % Half, lo % Half>>

\* exact (non-wrapping) sum and product: the high half is left unreduced,
\* so a value of 2^32 or more keeps a high half >= 2^16
XAdd(a, b) ==
    LET lo == a[2] + b[2] IN <<a[1] + b[1] + (lo \div Half), lo % Half>>

XMul(a, k) ==
    LET lo == a[2] * k IN <<a[1] * k + (lo \div Half), lo % Half>>

\* the value of a uint32_t below 2^31 as an integer
N32(a) == a[1] * Half + a[2]

-----------------------------------------------------------------------------
(* String helpers (vmprog_format.hpp)                                      *)

\* is_string_terminated: some byte of the buffer is '\0'
is_string_terminated(str) == \E i \in 1..Len(str) : str[i] = 0

-----------------------------------------------------------------------------
(* Structural validators (vmprog_format.hpp)                               *)

\* a variant of validate_vmprog_header_v1_0 that tests the TOC offset before
\* the TOC count (the two checks swapped)
validate_vmprog_header_offset_before_count(header, file_size) ==
    IF header.magic # expected_magic THEN "invalid_magic"
    ELSE IF header.version_major # 1 THEN "invalid_version"
    ELSE IF header.header_size # header_struct_size THEN "invalid_header_size"
    ELSE IF \/ Lt32(file_size, V32(header_struct_size))
            \/ Gt32(file_size, V32(max_file_size))
            \/ file_size # header.file_size THEN "invalid_file_size"
    ELSE IF \/ Lt32(header.toc_offset, V32(header_struct_size))
            \/ Ge32(header.toc_offset, file_size) THEN "invalid_toc_offset"
    ELSE IF \/ header.toc_count = V32(0)
            \/ Gt32(header.toc_count, V32(max_header_toc_count))
         THEN "invalid_toc_count"
    ELSE LET toc_size == Mul32(header.toc_count, toc_entry_struct_size) IN
         IF \/ header.toc_bytes # toc_size
            \/ Gt32(Add32(header.toc_offset, toc_size), file_size)
         THEN "invalid_toc_size"
         ELSE "ok"

\* a variant of validate_vmprog_header_v1_0 without the upper limit on the
\* TOC count
validate_vmprog_header_v1_0_count_unbounded(header, file_size) ==
    IF header.magic # expected_magic THEN "invalid_magic"
    ELSE IF header.version_major # 1 THEN "invalid_version"
    ELSE IF header.header_size # header_struct_size THEN "invalid_header_size"
    ELSE IF \/ Lt32(file_size, V32(header_struct_size))
            \/ Gt32(file_size, V32(max_file_size))
            \/ file_size # header.file_size THEN "invalid_file_size"
    ELSE IF header.toc_count = V32(0) THEN "invalid_toc_count"
    ELSE IF \/ Lt32(header.toc_offset, V32(header_struct_size))
            \/ Ge32(header.toc_offset, file_size) THEN "invalid_toc_offset"
    ELSE LET toc_size == Mul32(header.toc_count, toc_entry_struct_size) IN
         IF \/ header.toc_bytes # toc_size
            \/ Gt32(Add32(header.toc_offset, toc_size), file_size)
         THEN "invalid_toc_size"
         ELSE "ok"

validate_vmprog_header_v1_0(header, file_size) ==
    IF header.magic # expected_magic THEN "invalid_magic"
    ELSE IF header.version_major # 1 THEN "invalid_version"
    ELSE IF header.header_size # header_struct_size THEN "invalid_header_size"
    ELSE IF \/ Lt32(file_size, V32(header_struct_size))
            \/ Gt32(file_size, V32(max_file_size))
            \/ file_size # header.file_size THEN "invalid_file_size"
    ELSE IF \/ header.toc_count = V32(0)
            \/ Gt32(header.toc_count, V32(max_header_toc_count))
         THEN "invalid_toc_count"
    ELSE IF \/ Lt32(header.toc_offset, V32(header_struct_size))
            \/ Ge32(header.toc_offset, file_size) THEN "invalid_toc_offset"
    ELSE LET toc_size == Mul32(header.toc_count, toc_entry_struct_size) IN
         IF \/ header.toc_bytes # toc_size
            \/ Gt32(Add32(header.toc_offset, toc_size), file_size)
         THEN "invalid_toc_size"
         ELSE "ok"

validate_vmprog_toc_entry_v1_0(entry, file_size) ==
    IF entry.type = type_none THEN "invalid_toc_entry"
    ELSE IF \/ Lt32(entry.offset, V32(header_struct_size))
            \/ Ge32(entry.offset, file_size)
         THEN "invalid_payload_offset"
    ELSE IF /\ Gt32(entry.size, V32(0))
            /\ Gt32(entry.offset, Sub32(file_size, entry.size))
         THEN "invalid_payload_offset"
    ELSE IF \E i \in 1..4 : entry.reserved[i] # 0
         THEN "reserved_field_not_zero"
    ELSE "ok"

validate_vmprog_artifact_hash_v1_0(artifact) ==
    IF artifact.type > type_bitstream_hd_dual THEN "invalid_enum_value"
    ELSE "ok"

validate_vmprog_signed_descriptor_v1_0(descriptor) ==
    IF descriptor.artifact_count > max_artifacts THEN "invalid_artifact_count"
    ELSE IF \E i \in 1..3 : descriptor.reserved_pad[i] # 0
         THEN "reserved_field_not_zero"
    ELSE LET \* the used slots in index order: the first one that fails
             \* decides the code
             usedBad == { i \in 1..descriptor.artifact_count :
                            \/ descriptor.artifacts[i].type = type_none
                            \/ validate_vmprog_artifact_hash_v1_0(
                                   descriptor.artifacts[i]) # "ok" }
             unusedBad == { i \in (descriptor.artifact_count + 1)..max_artifacts :
                              \/ descriptor.artifacts[i].type # type_none
                              \/ descriptor.artifacts[i].sha256 # 0 }
             firstOf(S) == CHOOSE i \in S : \A j \in S : i <= j
         IN  IF usedBad # {}
             THEN IF descriptor.artifacts[firstOf(usedBad)].type = type_none
                  THEN "invalid_artifact_count"
                  ELSE validate_vmprog_artifact_hash_v1_0(
                           descriptor.artifacts[firstOf(usedBad)])
             ELSE IF unusedBad # {}
             THEN IF descriptor.artifacts[firstOf(unusedBad)].type # type_none
                  THEN "invalid_artifact_count"
                  ELSE "reserved_field_not_zero"
             ELSE "ok"

validate_vmprog_parameter_config_v1_0(param) ==
    IF param.parameter_id > linear_potentiometer_12 THEN "invalid_enum_value"
    ELSE IF param.control_mode > expo_in_out THEN "invalid_enum_value"
    ELSE IF param.value_label_count > max_value_labels
         THEN "invalid_value_label_count"
    ELSE IF param.min_value > param.max_value THEN "invalid_parameter_values"
    ELSE IF \/ param.initial_value < param.min_value
            \/ param.initial_value > param.max_value
         THEN "invalid_parameter_values"
    ELSE IF param.display_min_value > param.display_max_value
         THEN "invalid_parameter_values"
    ELSE IF \/ ~is_string_terminated(param.name_label)
            \/ ~is_string_terminated(param.suffix_label)
         THEN "string_not_terminated"
    ELSE IF \E i \in 1..param.value_label_count :
                ~is_string_terminated(param.value_labels[i])
         THEN "string_not_terminated"
    ELSE IF \E i \in 1..2 : param.reserved_pad[i] # 0 \/ param.reserved[i] # 0
         THEN "reserved_field_not_zero"
    ELSE "ok"

validate_vmprog_program_config_v1_0(config) ==
    IF config.parameter_count > num_parameters THEN "invalid_parameter_count"
    ELSE IF \/ config.abi_min_major > config.abi_max_major
            \/ /\ config.abi_min_major = config.abi_max_major
               /\ config.abi_min_minor > config.abi_max_minor
         THEN "invalid_abi_range"
    ELSE IF config.abi_min_major = 0 \/ config.abi_max_major = 0
         THEN "invalid_abi_range"
    ELSE IF \/ ~is_string_terminated(config.program_id)
            \/ ~is_string_terminated(config.program_name)
            \/ ~is_string_terminated(config.author)
            \/ ~is_string_terminated(config.license)
            \/ ~is_string_terminated(config.category)
            \/ ~is_string_terminated(config.description)
         THEN "string_not_terminated"
    ELSE IF config.program_id[1] = 0 \/ config.program_name[1] = 0
         THEN "string_not_terminated"
    ELSE IF config.hw_mask = 0 THEN "invalid_enum_value"
    ELSE IF config.core_id = 0 THEN "invalid_enum_value"
    ELSE IF \/ config.reserved_pad # 0
            \/ config.reserved[1] # 0
            \/ config.reserved[2] # 0
         THEN "reserved_field_not_zero"
    ELSE LET bad == { i \in 1..config.parameter_count :
                        validate_vmprog_parameter_config_v1_0(
                            config.parameters[i]) # "ok" }
         IN  IF bad = {} THEN "ok"
             ELSE validate_vmprog_parameter_config_v1_0(
                      config.parameters[CHOOSE i \in bad : \A j \in bad : i <= j])

-----------------------------------------------------------------------------
(* Records as constructed by the init_* helpers (vmprog_format.hpp)        *)

\* a char buffer of n bytes: k letters, then NULs (k = n: no terminator)
Text(n, k) == [i \in 1..n |-> IF i <= k THEN 65 ELSE 0]

\* init_toc_entry: everything zero
init_toc_entry ==
    [type |-> type_none, flags |-> 0, offset |-> V32(0), size |-> V32(0),
     sha256 |-> 0, reserved |-> <<0, 0, 0, 0>>]

\* init_vmprog_header: magic, version 1.0, header_size 64, the rest zero
init_vmprog_header ==
    [magic |-> expected_magic, version_major |-> 1, version_minor |-> 0,
     header_size |-> header_struct_size, reserved_pad |-> 0,
     file_size |-> V32(0), flags |-> 0, toc_offset |-> V32(0),
     toc_bytes |-> V32(0), toc_count |-> V32(0), sha256_package |-> 0]

\* init_signed_descriptor: everything zero
init_signed_descriptor ==
    [config_sha256 |-> 0, artifact_count |-> 0, reserved_pad |-> <<0, 0, 0>>,
     artifacts |-> [i \in 1..max_artifacts |-> [type |-> type_none, sha256 |-> 0]],
     flags |-> 0, build_id |-> 0]

\* init_parameter_config: zero but max_value 65535 and display_max_value 100
init_parameter_config ==
    [parameter_id |-> 0, control_mode |-> 0,
     min_value |-> 0, max_value |-> 65535, initial_value |-> 0,
     display_min_value |-> 0, display_max_value |-> 100,
     display_float_digits |-> 0, value_label_count |-> 0,
     reserved_pad |-> <<0, 0>>,
     name_label |-> Text(32, 0),
     value_labels |-> [i \in 1..max_value_labels |-> Text(32, 0)],
     suffix_label |-> Text(4, 0),
     reserved |-> <<0, 0>>]

\* a zero-filled parameter entry, as in an unused slot
zero_parameter_config ==
    [init_parameter_config EXCEPT !.max_value = 0, !.display_max_value = 0]

\* init_vmprog_config: zeroed, ABI [1.0, 2.0), hw_mask rev_a, core yuv444_30b;
\* a program fills in at least program_id and program_name
init_vmprog_config ==
    [program_id |-> Text(64, 0),
     program_version_major |-> 1, program_version_minor |-> 0,
     program_version_patch |-> 0,
     abi_min_major |-> 1, abi_min_minor |-> 0,
     abi_max_major |-> 2, abi_max_minor |-> 0,
     hw_mask |-> 1, core_id |-> 1,
     program_name |-> Text(32, 0), author |-> Text(64, 0),
     license |-> Text(32, 0), category |-> Text(32, 0),
     description |-> Text(128, 0), url |-> Text(128, 0),
     parameter_count |-> 0, reserved_pad |-> 0,
     parameters |-> [i \in 1..num_parameters |-> zero_parameter_config],
     reserved |-> <<0, 0>>]

-----------------------------------------------------------------------------
(* Package files, hashes and signatures                                    *)
(*                                                                         *)
(* A file is [id, size, header, toc]: its length, the header stored at     *)
(* offset 0 and the TOC entries stored at header.toc_offset; id names the  *)
(* file's bytes outside the header's sha256_package field.  All files      *)
(* share one payload image, given by four tables keyed by offset: the id   *)
(* of the bytes of each region, and what the bytes are as a signed         *)
(* descriptor, an Ed25519 signature and a program config.                  *)

\* sha256_oneshot (BLAKE2b-256) of bytes [id, len]: injective on the bytes
\* the model uses, and never the all-zero hash 0
sha256_oneshot(bytes) == bytes.id * (Half \div 2) + bytes.len + 1

\* verify_hash: hash the data, compare with the expected hash
verify_hash(bytes, expected_hash) == sha256_oneshot(bytes) = expected_hash

is_hash_zero(hash) == hash = 0

\* where the regions of the payload image start
TocOffset == header_struct_size
TocAreaSize == (vmprog_stream_max_toc_entries + 1) * toc_entry_struct_size
DescGoodAt == TocOffset + TocAreaSize
DescWrongCfgAt == DescGoodAt + signed_descriptor_struct_size
DescInvalidAt == DescWrongCfgAt + signed_descriptor_struct_size
SigGoodAt == DescInvalidAt + signed_descriptor_struct_size
SigWrongCfgAt == SigGoodAt + VMPROG_SIGNATURE_SIZE
SigInvalidAt == SigWrongCfgAt + VMPROG_SIGNATURE_SIZE
SigOtherKeyAt == SigInvalidAt + VMPROG_SIGNATURE_SIZE
CfgGoodAt == SigOtherKeyAt + VMPROG_SIGNATURE_SIZE
CfgOtherAt == CfgGoodAt + program_config_struct_size
CfgInvalidAt == CfgOtherAt + program_config_struct_size
BitstreamAt == CfgInvalidAt + program_config_struct_size
BitstreamSize == 16 * VMPROG_SIGNATURE_SIZE
PackageSize == BitstreamAt + BitstreamSize

DescBytes(id) == [id |-> id, len |-> signed_descriptor_struct_size]
CfgBytes(id) == [id |-> id, len |-> program_config_struct_size]

At(table, offset, default) ==
    IF offset \in DOMAIN table THEN table[offset] ELSE default

\* the id of the bytes of each region
PayloadIds ==
       ( V32(DescGoodAt) :> 1 ) @@ ( V32(DescWrongCfgAt) :> 2 )
    @@ ( V32(DescInvalidAt) :> 3 ) @@ ( V32(SigGoodAt) :> 4 )
    @@ ( V32(SigWrongCfgAt) :> 5 ) @@ ( V32(SigInvalidAt) :> 6 )
    @@ ( V32(SigOtherKeyAt) :> 7 ) @@ ( V32(CfgGoodAt) :> 8 )
    @@ ( V32(CfgOtherAt) :> 9 ) @@ ( V32(CfgInvalidAt) :> 10 )
    @@ ( V32(BitstreamAt) :> 11 )

\* three descriptors: one with the hash of the stored config, one with
\* another config_sha256, one with too many artifacts
Descriptors ==
       ( V32(DescGoodAt) :> [init_signed_descriptor EXCEPT
             !.config_sha256 = sha256_oneshot(CfgBytes(8)), !.build_id = 1] )
    @@ ( V32(DescWrongCfgAt) :> [init_signed_descriptor EXCEPT
             !.config_sha256 = sha256_oneshot(CfgBytes(9)), !.build_id = 2] )
    @@ ( V32(DescInvalidAt) :> [init_signed_descriptor EXCEPT
             !.config_sha256 = sha256_oneshot(CfgBytes(8)),
             !.artifact_count = max_artifacts + 1] )

\* four signatures: by the built-in key over each descriptor, and by
\* another key over the first
Signatures ==
       ( V32(SigGoodAt) :> [key |-> "key1", msg |-> DescBytes(1)] )
    @@ ( V32(SigWrongCfgAt) :> [key |-> "key1", msg |-> DescBytes(2)] )
    @@ ( V32(SigInvalidAt) :> [key |-> "key1", msg |-> DescBytes(3)] )
    @@ ( V32(SigOtherKeyAt) :> [key |-> "key2", msg |-> DescBytes(1)] )

\* three configs: two valid, one with too many parameters
Configs ==
    LET named == [init_vmprog_config EXCEPT !.program_id = Text(64, 3),
                                            !.program_name = Text(32, 5)]
    IN ( V32(CfgGoodAt) :> named )
    @@ ( V32(CfgOtherAt) :> [named EXCEPT !.program_version_minor = 1] )
    @@ ( V32(CfgInvalidAt) :> [named EXCEPT
                                  !.parameter_count = num_parameters + 1] )

zero_signature == [key |-> "none", msg |-> [id |-> 0, len |-> 0]]

zero_config ==
    [init_vmprog_config EXCEPT
        !.program_version_major = 0, !.abi_min_major = 0,
        !.abi_max_major = 0, !.hw_mask = 0, !.core_id = 0]

\* the bytes at an offset, as an id and reinterpreted as each structure;
\* every file carries the same payload image
PayloadId(file, offset) == At(PayloadIds, offset, 0)
DescriptorAt(file, offset) == At(Descriptors, offset, init_signed_descriptor)
SignatureAt(file, offset) == At(Signatures, offset, zero_signature)
ConfigAt(file, offset) == At(Configs, offset, zero_config)

\* the bytes [offset, offset + size) of the file: which region, how many
PayloadBytes(file, offset, size) ==
    [id |-> PayloadId(file, offset), len |-> N32(size)]

\* calculate_package_sha256: the whole file with sha256_package zeroed
calculate_package_sha256(file) ==
    sha256_oneshot([id |-> file.id, len |-> N32(file.size)])

verify_package_sha256(file, file_size) ==
    IF Lt32(file_size, V32(header_struct_size)) THEN FALSE
    ELSE calculate_package_sha256(file) = file.header.sha256_package

\* ed25519_verify: the signature was made with the private half of
\* public_key over exactly these message bytes
ed25519_verify(signature, public_key, message) ==
    signature.key = public_key /\ signature.msg = message

\* verify_ed25519_signature: the message is the raw 332 descriptor bytes
verify_ed25519_signature(signature, public_key, descriptor_bytes) ==
    ed25519_verify(signature, public_key,
                   [id |-> descriptor_bytes.id,
                    len |-> signed_descriptor_struct_size])

\* the one built-in key of vmprog_public_keys
vmprog_public_keys == <<"key1">>

verify_with_builtin_keys(signature, descriptor_bytes) ==
    \E i \in 1..Len(vmprog_public_keys) :
        verify_ed25519_signature(signature, vmprog_public_keys[i],
                                 descriptor_bytes)

\* find_toc_entry: the index of the first entry of the type, 0 when none
find_toc_entry(toc, toc_count, type) ==
    LET hit == { i \in 1..toc_count : toc[i].type = type }
    IN  IF hit = {} THEN 0 ELSE CHOOSE i \in hit : \A j \in hit : i <= j

count_toc_entries(toc, toc_count, type) ==
    Cardinality({ i \in 1..toc_count : toc[i].type = type })

is_package_signed(header) == (header.flags % 2) # 0

-----------------------------------------------------------------------------
(* The byte source (vmprog_stream) and the stream log                      *)
(*                                                                         *)
(* io = [log, failAt, partial]: the seek and read calls issued so far,     *)
(* each with its argument (the position sought, the byte count asked      *)
(* for) and the step of the operation that issued it, and the              *)
(* fault plan of the stream: call number failAt fails (a seek returns      *)
(* false, a read returns a short count); partial tells whether a short     *)
(* read still delivered a prefix of the bytes asked for.                   *)

NewIo(failAt, partial) == [log |-> <<>>, failAt |-> failAt, partial |-> partial]

\* stream.seek(pos): false past the end of the file, or when faulted
StreamSeek(io, file, step, pos) ==
    LET ok == Len(io.log) + 1 # io.failAt /\ Le32(pos, file.size)
    IN  [io |-> [io EXCEPT !.log = Append(@, [step |-> step, op |-> "seek",
                                              arg |-> pos, ok |-> ok])],
         ok |-> ok]

\* stream.read(n) at position pos: full when the bytes are there and the
\* call is not faulted
StreamRead(io, file, step, pos, n) ==
    LET ok == \/ n = V32(0)
              \/ Len(io.log) + 1 # io.failAt /\ Le32(XAdd(pos, n), file.size)
    IN  [io |-> [io EXCEPT !.log = Append(@, [step |-> step, op |-> "read",
                                              arg |-> n, ok |-> ok])],
         ok |-> ok]

-----------------------------------------------------------------------------
(* Stream-based reading functions (vmprog_stream_reader.hpp)               *)
(*                                                                         *)
(* Each takes the io state and returns [res, io, ...]: the result code,    *)
(* the io state after its stream calls, and what it wrote to its output    *)
(* parameters.                                                             *)

\* a header of zero bytes
zero_header ==
    [magic |-> 0, version_major |-> 0, version_minor |-> 0, header_size |-> 0,
     reserved_pad |-> 0, file_size |-> V32(0), flags |-> 0,
     toc_offset |-> V32(0), toc_bytes |-> V32(0), toc_count |-> V32(0),
     sha256_package |-> 0]

\* a seek to pos followed, when it succeeds, by a read of n bytes:
\* [io, failed], failed being "seek", "read" or "none"
SeekRead(io, file, step, pos, n) ==
    LET AfterRead(r) ==
            [io |-> r.io, failed |-> IF r.ok THEN "none" ELSE "read"]
        AfterSeek(s) ==
            IF ~s.ok THEN [io |-> s.io, failed |-> "seek"]
            ELSE AfterRead(StreamRead(s.io, file, step, pos, n))
    IN  AfterSeek(StreamSeek(io, file, step, pos))

\* the first 16 bytes of a header (magic .. file_size) overwritten
PartialHeader(old, new) ==
    [old EXCEPT !.magic = new.magic, !.version_major = new.version_major,
                !.version_minor = new.version_minor,
                !.header_size = new.header_size,
                !.reserved_pad = new.reserved_pad, !.file_size = new.file_size]

read_vmprog_header(io, file, out_header) ==
    LET Done(x) ==
            [res |-> IF x.failed = "none" THEN "ok" ELSE "invalid_file_size",
             io |-> x.io,
             header |-> CASE x.failed = "none" -> file.header
                          [] x.failed = "read" /\ io.partial ->
                                 PartialHeader(out_header, file.header)
                          [] OTHER -> out_header]
    IN  Done(SeekRead(io, file, "header", V32(0), V32(header_struct_size)))

read_and_validate_vmprog_header(io, file, file_size, out_header) ==
    LET Done(r) ==
            IF r.res # "ok" THEN r
            ELSE [r EXCEPT !.res = validate_vmprog_header_v1_0(r.header,
                                                               file_size)]
    IN  Done(read_vmprog_header(io, file, out_header))

\* the i-th entry stored at header.toc_offset; zero bytes past the last
TocAt(file, i) == IF i <= Len(file.toc) THEN file.toc[i] ELSE init_toc_entry

\* as read_vmprog_toc, without the check of toc_count against the capacity
read_vmprog_toc_capacity_unchecked(io, file, header, out_toc, max_toc_entries) ==
    LET Done(x, n) ==
            [res |-> CASE x.failed = "none" -> "ok"
                       [] x.failed = "seek" -> "invalid_toc_offset"
                       [] OTHER -> "invalid_toc_size",
             io |-> x.io,
             toc |-> IF x.failed = "none"
                     THEN [i \in DOMAIN out_toc |->
                              IF i <= n THEN TocAt(file, i) ELSE out_toc[i]]
                     ELSE out_toc]
    IN  Done(SeekRead(io, file, "toc", header.toc_offset,
                      Mul32(header.toc_count, toc_entry_struct_size)),
             N32(header.toc_count))

read_vmprog_toc(io, file, header, out_toc, max_toc_entries) ==
    LET Done(x, n) ==
            [res |-> CASE x.failed = "none" -> "ok"
                       [] x.failed = "seek" -> "invalid_toc_offset"
                       [] OTHER -> "invalid_toc_size",
             io |-> x.io,
             toc |-> CASE x.failed = "none" ->
                            [i \in DOMAIN out_toc |->
                                IF i <= n THEN TocAt(file, i) ELSE out_toc[i]]
                       [] x.failed = "read" /\ io.partial /\ n > 1 ->
                            [out_toc EXCEPT ![1] = TocAt(file, 1)]
                       [] OTHER -> out_toc]
    IN  IF Gt32(header.toc_count, V32(max_toc_entries))
        THEN [res |-> "invalid_toc_count", io |-> io, toc |-> out_toc]
        ELSE Done(SeekRead(io, file, "toc", header.toc_offset,
                           Mul32(header.toc_count, toc_entry_struct_size)),
                  N32(header.toc_count))

\* the code of the first entry (in index order) that fails validation
FirstTocEntryFailure(toc, toc_count, file_size) ==
    LET Bad(i) == validate_vmprog_toc_entry_v1_0(toc[i], file_size) # "ok"
        First(bad) ==
            IF bad = {} THEN "ok"
            ELSE validate_vmprog_toc_entry_v1_0(
                     toc[CHOOSE i \in bad : \A j \in bad : i <= j], file_size)
    IN  First({ i \in 1..toc_count : Bad(i) })

read_and_validate_vmprog_toc(io, file, header, file_size, out_toc, max_toc_entries) ==
    LET Done(r) ==
            IF r.res # "ok" THEN r
            ELSE [r EXCEPT !.res = FirstTocEntryFailure(
                                       r.toc, N32(header.toc_count), file_size)]
    IN  Done(read_vmprog_toc(io, file, header, out_toc, max_toc_entries))

\* read_payload: [ok, io, bytes]
read_payload(io, file, step, entry, max_payload_size) ==
    LET Done(x) ==
            [ok |-> x.failed = "none", io |-> x.io,
             bytes |-> PayloadBytes(file, entry.offset, entry.size)]
    IN  IF Gt32(entry.size, max_payload_size)
        THEN [ok |-> FALSE, io |-> io, bytes |-> [id |-> 0, len |-> 0]]
        ELSE Done(SeekRead(io, file, step, entry.offset, entry.size))

find_and_read_payload(io, file, toc, toc_count, type, max_payload_size) ==
    LET Done(r) == [res |-> IF r.ok THEN "ok" ELSE "invalid_payload_offset",
                    io |-> r.io]
        Found(i) ==
            IF i = 0 THEN [res |-> "invalid_toc_entry", io |-> io]
            ELSE Done(read_payload(io, file, "payload", toc[i],
                                   max_payload_size))
    IN  Found(find_toc_entry(toc, toc_count, type))

\* the loop of verify_all_payload_hashes_stream from entry i on
RECURSIVE HashWalkFrom(_, _, _, _, _, _)
HashWalkFrom(io, file, toc, toc_count, scratch_buffer_size, i) ==
    LET Checked(r) ==
            IF ~r.ok THEN [res |-> "invalid_payload_offset", io |-> r.io]
            ELSE IF ~verify_hash(r.bytes, toc[i].sha256)
            THEN [res |-> "invalid_hash", io |-> r.io]
            ELSE HashWalkFrom(r.io, file, toc, toc_count,
                              scratch_buffer_size, i + 1)
    IN  IF i > toc_count THEN [res |-> "ok", io |-> io]
        ELSE IF toc[i].size = V32(0)
        THEN HashWalkFrom(io, file, toc, toc_count, scratch_buffer_size, i + 1)
        ELSE IF Gt32(toc[i].size, scratch_buffer_size)
        THEN [res |-> "invalid_payload_offset", io |-> io]
        ELSE Checked(read_payload(io, file, "hash", toc[i],
                                  scratch_buffer_size))

\* as verify_all_payload_hashes_stream, but only the last entry is checked
verify_all_payload_hashes_stream_last_entry_only(io, file, toc, toc_count, scratch_buffer_size) ==
    HashWalkFrom(io, file, toc, toc_count, scratch_buffer_size, toc_count)

verify_all_payload_hashes_stream(io, file, toc, toc_count, scratch_buffer_size) ==
    HashWalkFrom(io, file, toc, toc_count, scratch_buffer_size, 1)

read_vmprog_config(io, file, entry) ==
    LET Done(x) ==
            [res |-> IF x.failed = "none" THEN "ok"
                     ELSE "invalid_payload_offset",
             io |-> x.io,
             config |-> ConfigAt(file, entry.offset),
             bytes |-> PayloadBytes(file, entry.offset, entry.size)]
    IN  IF \/ entry.type # type_config
           \/ entry.size # V32(program_config_struct_size)
        THEN [res |-> "invalid_toc_entry", io |-> io, config |-> zero_config,
              bytes |-> [id |-> 0, len |-> 0]]
        ELSE Done(SeekRead(io, file, "config", entry.offset,
                           V32(program_config_struct_size)))

read_and_validate_vmprog_config(io, file, entry, should_verify_hash) ==
    LET Hashed(r) ==
            IF should_verify_hash /\ ~verify_hash(r.bytes, entry.sha256)
            THEN [res |-> "invalid_hash", io |-> r.io]
            ELSE [res |-> "ok", io |-> r.io]
        Validated(r, structure) ==
            IF structure # "ok" THEN [res |-> structure, io |-> r.io]
            ELSE Hashed(r)
        Done(r) ==
            IF r.res # "ok" THEN [res |-> r.res, io |-> r.io]
            ELSE Validated(r, validate_vmprog_program_config_v1_0(r.config))
    IN  Done(read_vmprog_config(io, file, entry))

read_signed_descriptor(io, file, entry) ==
    LET Done(x) ==
            [res |-> IF x.failed = "none" THEN "ok"
                     ELSE "invalid_payload_offset",
             io |-> x.io,
             descriptor |-> DescriptorAt(file, entry.offset),
             bytes |-> PayloadBytes(file, entry.offset, entry.size)]
    IN  IF \/ entry.type # type_signed_descriptor
           \/ entry.size # V32(signed_descriptor_struct_size)
        THEN [res |-> "invalid_toc_entry", io |-> io,
              descriptor |-> init_signed_descriptor,
              bytes |-> [id |-> 0, len |-> 0]]
        ELSE Done(SeekRead(io, file, "signature", entry.offset,
                           V32(signed_descriptor_struct_size)))

read_and_validate_signed_descriptor(io, file, entry) ==
    LET Done(r) ==
            IF r.res # "ok" THEN r
            ELSE [r EXCEPT !.res = validate_vmprog_signed_descriptor_v1_0(
                                       r.descriptor)]
    IN  Done(read_signed_descriptor(io, file, entry))

\* read_signature: [ok, io, signature]
read_signature(io, file, entry) ==
    LET Done(x) ==
            [ok |-> x.failed = "none", io |-> x.io,
             signature |-> SignatureAt(file, entry.offset)]
    IN  IF \/ entry.type # type_signature
           \/ entry.size # V32(VMPROG_SIGNATURE_SIZE)
        THEN [ok |-> FALSE, io |-> io, signature |-> zero_signature]
        ELSE Done(SeekRead(io, file, "signature", entry.offset,
                           V32(VMPROG_SIGNATURE_SIZE)))

\* public_key "builtin" stands for the built-in keys variant
SignatureCheck(signature, public_key, descriptor_bytes) ==
    IF public_key = "builtin"
    THEN verify_with_builtin_keys(signature, descriptor_bytes)
    ELSE verify_ed25519_signature(signature, public_key, descriptor_bytes)

\* the common body of verify_package_signature_stream and
\* verify_package_signature_builtin_keys_stream
VerifyPackageSignature(io, file, toc, toc_count, public_key) ==
    LET SignatureRead(r, q) ==
            IF ~q.ok THEN [res |-> "invalid_hash", io |-> q.io]
            ELSE IF ~SignatureCheck(q.signature, public_key, r.bytes)
            THEN [res |-> "invalid_hash", io |-> q.io]
            ELSE [res |-> "ok", io |-> q.io]
        SignatureFound(r, g) ==
            IF g = 0 THEN [res |-> "invalid_toc_entry", io |-> r.io]
            ELSE SignatureRead(r, read_signature(r.io, file, toc[g]))
        DescriptorRead(r) ==
            IF r.res # "ok" THEN [res |-> r.res, io |-> r.io]
            ELSE SignatureFound(r, find_toc_entry(toc, toc_count,
                                                  type_signature))
        DescriptorFound(d) ==
            IF d = 0 THEN [res |-> "invalid_toc_entry", io |-> io]
            ELSE DescriptorRead(
                     read_and_validate_signed_descriptor(io, file, toc[d]))
    IN  DescriptorFound(find_toc_entry(toc, toc_count, type_signed_descriptor))

verify_package_signature_stream(io, file, toc, toc_count, public_key) ==
    VerifyPackageSignature(io, file, toc, toc_count, public_key)

verify_package_signature_builtin_keys_stream(io, file, toc, toc_count) ==
    VerifyPackageSignature(io, file, toc, toc_count, "builtin")

\* the scratch buffer check of validate_vmprog_package_stream and open
NoScratch(scratch) == scratch.buffer = "nullptr" \/ scratch.size = V32(0)

\* the stream-reading functions' result with the step that produced it
\* ("done" when nothing failed)
At_(r, step) ==
    [res |-> r.res, io |-> r.io, at |-> IF r.res = "ok" THEN "done" ELSE step]

\* the hash step of validate_vmprog_package_stream and open
HashStep(io, file, header, toc, verify_hashes, scratch) ==
    IF ~verify_hashes THEN [res |-> "ok", io |-> io]
    ELSE IF NoScratch(scratch) THEN [res |-> "invalid_file_size", io |-> io]
    ELSE verify_all_payload_hashes_stream(io, file, toc,
             N32(header.toc_count), scratch.size)

\* validate_vmprog_package_stream after the hash step: the config read and
\* the signature verification
ConfigAndSignatureStream(io, file, header, toc, verify_hashes, verify_signature, public_key) ==
    LET n == N32(header.toc_count)
        AfterConfig(rc) ==
            IF rc.res # "ok" THEN At_(rc, "config")
            ELSE IF ~(verify_signature /\ is_package_signed(header))
            THEN At_(rc, "done")
            ELSE IF public_key # "nullptr"
            THEN At_(verify_package_signature_stream(rc.io, file, toc, n,
                                                     public_key), "signature")
            ELSE At_(verify_package_signature_builtin_keys_stream(
                         rc.io, file, toc, n), "signature")
        ConfigFound(c) ==
            AfterConfig(
                IF c # 0 /\ toc[c].size = V32(program_config_struct_size)
                THEN read_and_validate_vmprog_config(io, file, toc[c],
                                                     verify_hashes)
                ELSE [res |-> "ok", io |-> io])
    IN  ConfigFound(find_toc_entry(toc, n, type_config))

\* as validate_vmprog_package_stream, but a failed hash walk does not stop
\* the operation
validate_vmprog_package_stream_hash_walk_ignored(io, file, file_size, verify_hashes, verify_signature, public_key, scratch) ==
    LET fresh == [i \in 1..vmprog_stream_max_toc_entries |-> init_toc_entry]
        AfterHashes(h, t, w) ==
            ConfigAndSignatureStream(w.io, file, h.header, t.toc,
                verify_hashes, verify_signature, public_key)
        AfterToc(h, t) ==
            IF t.res # "ok" THEN At_(t, "toc")
            ELSE AfterHashes(h, t, HashStep(t.io, file, h.header, t.toc,
                                            verify_hashes, scratch))
        AfterHeader(h) ==
            IF h.res # "ok" THEN At_(h, "header")
            ELSE AfterToc(h, read_and_validate_vmprog_toc(h.io, file,
                     h.header, file_size, fresh,
                     vmprog_stream_max_toc_entries))
    IN  AfterHeader(read_and_validate_vmprog_header(io, file, file_size,
                                                    zero_header))

validate_vmprog_package_stream(io, file, file_size, verify_hashes, verify_signature, public_key, scratch) ==
    LET fresh == [i \in 1..vmprog_stream_max_toc_entries |-> init_toc_entry]
        AfterHashes(h, t, w) ==
            IF w.res # "ok" THEN At_(w, "hash")
            ELSE ConfigAndSignatureStream(w.io, file, h.header, t.toc,
                     verify_hashes, verify_signature, public_key)
        AfterToc(h, t) ==
            IF t.res # "ok" THEN At_(t, "toc")
            ELSE AfterHashes(h, t, HashStep(t.io, file, h.header, t.toc,
                                            verify_hashes, scratch))
        AfterHeader(h) ==
            IF h.res # "ok" THEN At_(h, "header")
            ELSE AfterToc(h, read_and_validate_vmprog_toc(h.io, file,
                     h.header, file_size, fresh,
                     vmprog_stream_max_toc_entries))
    IN  AfterHeader(read_and_validate_vmprog_header(io, file, file_size,
                                                    zero_header))

-----------------------------------------------------------------------------
(* Buffer-based package validation (vmprog_format.hpp)                     *)

\* the TOC as the buffer code sees it: entries at file_data + toc_offset
BufferToc(file, header) == [i \in 1..N32(header.toc_count) |-> TocAt(file, i)]

\* the loop of verify_all_payload_hashes from entry i on
RECURSIVE PayloadHashesFrom(_, _, _, _)
PayloadHashesFrom(file, file_size, toc, i) ==
    LET Validated(entry) ==
            IF entry # "ok" THEN entry
            ELSE IF ~verify_hash(PayloadBytes(file, toc[i].offset, toc[i].size),
                                 toc[i].sha256)
            THEN "invalid_hash"
            ELSE PayloadHashesFrom(file, file_size, toc, i + 1)
    IN  IF i > Len(toc) THEN "ok"
        ELSE IF toc[i].size = V32(0)
        THEN PayloadHashesFrom(file, file_size, toc, i + 1)
        ELSE Validated(validate_vmprog_toc_entry_v1_0(toc[i], file_size))

verify_all_payload_hashes(file, file_size, header) ==
    PayloadHashesFrom(file, file_size, BufferToc(file, header), 1)

\* validate_vmprog_package from the signed descriptor lookup on
DescriptorAndSignature(file, header, toc, verify_signature, public_key) ==
    LET SignatureFound(d, g) ==
            IF g = 0 \/ toc[g].size # V32(VMPROG_SIGNATURE_SIZE)
            THEN "invalid_hash"
            ELSE IF ~verify_ed25519_signature(
                        SignatureAt(file, toc[g].offset), public_key,
                        DescBytes(PayloadId(file, toc[d].offset)))
            THEN "invalid_hash"
            ELSE "ok"
        Validated(d, structure) ==
            IF structure # "ok" THEN structure
            ELSE IF ~(verify_signature /\ is_package_signed(header)) THEN "ok"
            ELSE IF public_key = "nullptr" THEN "invalid_hash"
            ELSE SignatureFound(d, find_toc_entry(toc, Len(toc),
                                                  type_signature))
        DescriptorFound(d) ==
            IF d = 0 \/ toc[d].size # V32(signed_descriptor_struct_size)
            THEN "ok"
            ELSE Validated(d, validate_vmprog_signed_descriptor_v1_0(
                                  DescriptorAt(file, toc[d].offset)))
    IN  DescriptorFound(find_toc_entry(toc, Len(toc), type_signed_descriptor))

\* the hash step of validate_vmprog_package: payload hashes, then the
\* package hash when the header carries one
BufferHashStep(file, file_size, header, verify_hashes) ==
    LET Payloads(res) ==
            IF res # "ok" THEN res
            ELSE IF /\ ~is_hash_zero(header.sha256_package)
                    /\ ~verify_package_sha256(file, file_size)
            THEN "invalid_hash"
            ELSE "ok"
    IN  IF ~verify_hashes THEN "ok"
        ELSE Payloads(verify_all_payload_hashes(file, file_size, header))

validate_vmprog_package(file, file_size, verify_hashes, verify_signature, public_key) ==
    LET header == file.header
        AfterConfig(toc, cres) ==
            IF cres # "ok" THEN cres
            ELSE DescriptorAndSignature(file, header, toc, verify_signature,
                                        public_key)
        ConfigFound(toc, c) ==
            AfterConfig(toc,
                IF c # 0 /\ toc[c].size = V32(program_config_struct_size)
                THEN validate_vmprog_program_config_v1_0(
                         ConfigAt(file, toc[c].offset))
                ELSE "ok")
        AfterHashes(toc, wres) ==
            IF wres # "ok" THEN wres
            ELSE ConfigFound(toc, find_toc_entry(toc, Len(toc), type_config))
        AfterToc(toc, tres) ==
            IF tres # "ok" THEN tres
            ELSE AfterHashes(toc, BufferHashStep(file, file_size, header,
                                                 verify_hashes))
        TocFound(toc) ==
            AfterToc(toc, FirstTocEntryFailure(toc, Len(toc), file_size))
        AfterHeader(hres) ==
            IF hres # "ok" THEN hres
            ELSE TocFound(BufferToc(file, header))
    IN  IF Lt32(file_size, V32(header_struct_size)) THEN "invalid_file_size"
        ELSE AfterHeader(validate_vmprog_header_v1_0(header, file_size))

-----------------------------------------------------------------------------
(* vmprog_package_reader (vmprog_stream_reader.hpp)                        *)
(*                                                                         *)
(* The reader object as constructed (member initializers): no stream,      *)
(* closed, header and TOC zero-filled.  A reader value is the record of    *)
(* its members; stream_ is the file behind the stream it points to.        *)

ReaderInit ==
    /\ stream_ = "nullptr"
    /\ file_size_ = V32(0)
    /\ is_open_ = FALSE
    /\ header_ = zero_header
    /\ toc_ = [i \in 1..vmprog_stream_max_toc_entries |-> init_toc_entry]

readerVars == <<stream_, file_size_, is_open_, header_, toc_>>

\* the register addresses of videomancer_abi_v1_0::register_address
RegisterAddresses == 0..8

controllerVars == <<m_shadow, tail_pad, m_fpga>>

\* a videomancer_fpga with chip select released and no transfer seen; reg is
\* what each FPGA register holds, written the registers that took a frame
NewFpga(reg) ==
    [cs_state_ |-> FALSE, transactions_ |-> <<>>, reg |-> reg, written |-> {}]

\* a controller that takes no part in the run: constructed and never called
ControllerIdle ==
    /\ m_shadow = [a \in RegisterAddresses |-> 0]
    /\ tail_pad = 0
    /\ m_fpga = NewFpga([a \in RegisterAddresses |-> 0])

Reader ==
    [stream_ |-> stream_, file_size_ |-> file_size_, is_open_ |-> is_open_,
     header_ |-> header_, toc_ |-> toc_]

\* open: header_ and toc_ are the buffers the stream is read into
open(reader, io, stream, file_size, verify_hashes, scratch) ==
    LET Result(r, step, rd) ==
            [res |-> r.res, io |-> r.io,
             at |-> IF r.res = "ok" THEN "done" ELSE step,
             reader |-> IF r.res = "ok" THEN [rd EXCEPT !.is_open_ = TRUE]
                        ELSE rd]
        AfterToc(h, t, rd) ==
            IF t.res # "ok" THEN Result(t, "toc", rd)
            ELSE Result(HashStep(t.io, stream, h.header, t.toc,
                                 verify_hashes, scratch), "hash", rd)
        AfterHeader(h, rd) ==
            IF h.res # "ok" THEN Result(h, "header", rd)
            ELSE (LET TocRead(t) == AfterToc(h, t, [rd EXCEPT !.toc_ = t.toc])
                  IN  TocRead(read_and_validate_vmprog_toc(h.io, stream,
                          h.header, file_size, reader.toc_,
                          vmprog_stream_max_toc_entries)))
        HeaderRead(h) ==
            AfterHeader(h, [reader EXCEPT !.stream_ = stream,
                                          !.file_size_ = file_size,
                                          !.header_ = h.header])
    IN  HeaderRead(read_and_validate_vmprog_header(io, stream, file_size,
                                                   reader.header_))

is_open(reader) == reader.is_open_

toc_count(reader) ==
    IF reader.is_open_ THEN reader.header_.toc_count ELSE V32(0)

is_signed(reader) == reader.is_open_ /\ is_package_signed(reader.header_)

read_config(reader, io) ==
    LET Found(c) ==
            IF c = 0 THEN [res |-> "invalid_toc_entry", io |-> io]
            ELSE read_and_validate_vmprog_config(io, reader.stream_,
                                                 reader.toc_[c], FALSE)
    IN  IF ~reader.is_open_ THEN [res |-> "invalid_file_size", io |-> io]
        ELSE Found(find_toc_entry(reader.toc_,
                                  N32(reader.header_.toc_count), type_config))

read_payload_by_type(reader, io, type, max_payload_size) ==
    IF ~reader.is_open_ THEN [res |-> "invalid_file_size", io |-> io]
    ELSE find_and_read_payload(io, reader.stream_, reader.toc_,
             N32(reader.header_.toc_count), type, max_payload_size)

read_bitstream(reader, io, max_bitstream_size) ==
    read_payload_by_type(reader, io, type_fpga_bitstream, max_bitstream_size)

verify_signature(reader, io, public_key) ==
    IF ~reader.is_open_ THEN [res |-> "invalid_file_size", io |-> io]
    ELSE IF ~is_signed(reader) THEN [res |-> "invalid_toc_entry", io |-> io]
    ELSE IF public_key # "nullptr"
    THEN verify_package_signature_stream(io, reader.stream_, reader.toc_,
             N32(reader.header_.toc_count), public_key)
    ELSE verify_package_signature_builtin_keys_stream(io, reader.stream_,
             reader.toc_, N32(reader.header_.toc_count))

NoLast == [op |-> "none", log |-> <<>>, at |-> "none", open_result |-> "none"]

-----------------------------------------------------------------------------
(* SpecVal: the structural validators applied to candidate records         *)

\* 32-bit sample values around the edges the validators test
HeaderInputs ==
    { [init_vmprog_header EXCEPT
          !.magic = m, !.version_major = vm, !.header_size = hs,
          !.reserved_pad = rp, !.file_size = fs, !.flags = fl,
          !.toc_offset = off, !.toc_bytes = tb, !.toc_count = tc] :
        m \in {expected_magic, 0}, vm \in {1, 2}, hs \in {header_struct_size, 32},
        rp \in {0, 1}, fs \in {V32(200), V32(max_file_size)}, fl \in {0, 1, 2},
        off \in {V32(0), V32(64), V32(136), V32(137), V32(200),
                 Sub32(V32(0), V32(64))},
        tb \in {V32(0), V32(64), V32(128)},
        tc \in {V32(0), V32(1), V32(2), V32(257), <<1024, 0>>, <<1024, 1>>} }

\* headers of a file of the largest size with a TOC of the largest count, at
\* and around the last offset where it fits
HeaderTocInputs ==
    { [init_vmprog_header EXCEPT
          !.file_size = V32(max_file_size), !.toc_offset = off,
          !.toc_bytes = tb, !.toc_count = tc] :
        off \in {V32(64), V32(max_file_size - 16384),
                 V32(max_file_size - 16383)},
        tb \in {V32(16384), V32(16448)},
        tc \in {V32(256), V32(257), <<1024, 256>>} }

HeaderFileSizes == {V32(63), V32(200), V32(max_file_size), V32(max_file_size + 1)}

TocEntryInputs ==
    { [init_toc_entry EXCEPT
          !.type = t, !.flags = fl, !.offset = off, !.size = sz,
          !.reserved = rs] :
        t \in {0, 1, 2, 3, 4, 10, 11, 999}, fl \in {0, 1},
        off \in {V32(0), V32(63), V32(64), V32(150), V32(199), V32(200),
                 V32(1000), Max32},
        sz \in {V32(0), V32(1), V32(50), V32(100), V32(136), V32(137),
                V32(500), Sub32(V32(0), V32(64)), Max32},
        rs \in {<<0, 0, 0, 0>>, <<1, 0, 0, 0>>, <<0, 0, 0, 1>>} }

TocEntryFileSizes == {V32(0), V32(64), V32(200), V32(1200), Max32}

\* descriptors with u used slots of type t, and one unused slot holding
\* type ut and hash uh
DescriptorInputs ==
    { [init_signed_descriptor EXCEPT
          !.artifact_count = n, !.reserved_pad = rp, !.flags = fl,
          !.artifacts = [i \in 1..max_artifacts |->
                            IF i <= u THEN [type |-> t, sha256 |-> 7]
                            ELSE IF i = max_artifacts
                                 THEN [type |-> ut, sha256 |-> uh]
                                 ELSE [type |-> type_none, sha256 |-> 0]]] :
        n \in {0, 1, 2, 8, 9}, u \in {0, 1, 2}, t \in {0, 4, 10, 11, 999},
        rp \in {<<0, 0, 0>>, <<0, 0, 1>>, <<1, 0, 0>>}, fl \in {0, 1},
        ut \in {type_none, type_fpga_bitstream}, uh \in {0, 7} }

ParameterInputs ==
    { [init_parameter_config EXCEPT
          !.parameter_id = id, !.control_mode = cm,
          !.value_label_count = vc, !.initial_value = iv,
          !.reserved_pad = rp, !.reserved = rs,
          !.name_label = Text(32, nl)] :
        id \in {0, 1, 12, 13}, cm \in {0, 35, 36}, vc \in {0, 16, 17},
        iv \in {0, 65535}, rp \in {<<0, 0>>, <<0, 1>>, <<1, 0>>},
        rs \in {<<0, 0>>, <<0, 1>>, <<1, 0>>}, nl \in {4, 32} }

ProgramInputs ==
    { [init_vmprog_config EXCEPT
          !.program_id = Text(64, pid), !.program_name = Text(32, 5),
          !.abi_max_major = amax, !.hw_mask = hw,
          !.parameter_count = pc, !.reserved_pad = rp, !.reserved = rs,
          !.parameters = [i \in 1..num_parameters |->
                             IF i = 1 THEN p1 ELSE zero_parameter_config]] :
        pid \in {0, 5, 64}, amax \in {0, 2}, hw \in {0, 1}, pc \in {0, 1, 13},
        rp \in {0, 1}, rs \in {<<0, 0>>, <<0, 1>>, <<1, 0>>},
        p1 \in { [init_parameter_config EXCEPT !.parameter_id = id,
                     !.reserved = prs] :
                   id \in {0, 1, 13}, prs \in {<<0, 0>>, <<0, 1>>} } }

\* parameter entries around the value, display and label checks: label
\* number bad (0: none) has no terminator
ParameterRangeInputs ==
    { [init_parameter_config EXCEPT
          !.parameter_id = 1, !.min_value = mn, !.max_value = mx,
          !.initial_value = iv, !.display_min_value = dmin,
          !.display_max_value = dmax, !.display_float_digits = fd,
          !.value_label_count = vc,
          !.value_labels = [i \in 1..max_value_labels |->
                               Text(32, IF i = bad THEN 32 ELSE 3)],
          !.suffix_label = Text(4, sl)] :
        mn \in {0, 100}, mx \in {50, 65535}, iv \in {0, 100, 65535},
        dmin \in {-5, 10}, dmax \in {-10, 100}, fd \in {0, 6, 7},
        vc \in {0, 2, 16}, bad \in {0, 2, 3}, sl \in {2, 4} }

\* the identity strings of a program config, in declaration order
IdentityStrings ==
    <<"program_id", "program_name", "author", "license", "category",
      "description", "url">>

\* what the last parameter slot holds: zero bytes, a non-zero max_value, a
\* non-zero name_label
LastSlots ==
    { zero_parameter_config, [zero_parameter_config EXCEPT !.max_value = 1],
      [zero_parameter_config EXCEPT !.name_label = Text(32, 2)] }

\* program configs around the ABI range, string and parameter slot checks:
\* identity string number u (0: none) has no terminator
ProgramIdentityInputs ==
    { [init_vmprog_config EXCEPT
          !.program_id = Text(64, IF u = 1 THEN 64 ELSE pid),
          !.program_name = Text(32, IF u = 2 THEN 32 ELSE pn),
          !.author = Text(64, IF u = 3 THEN 64 ELSE 3),
          !.license = Text(32, IF u = 4 THEN 32 ELSE 3),
          !.category = Text(32, IF u = 5 THEN 32 ELSE 0),
          !.description = Text(128, IF u = 6 THEN 128 ELSE 9),
          !.url = Text(128, IF u = 7 THEN 128 ELSE 9),
          !.abi_min_major = a, !.abi_min_minor = b,
          !.abi_max_major = c, !.abi_max_minor = d,
          !.parameter_count = pc,
          !.parameters = [i \in 1..num_parameters |->
                             IF i = num_parameters THEN slot
                             ELSE zero_parameter_config]] :
        u \in 0..Len(IdentityStrings), pid \in {0, 5}, pn \in {0, 5},
        a \in 0..2, b \in 0..1, c \in 0..2, d \in 0..1,
        pc \in {0, 1, num_parameters}, slot \in LastSlots }

InitVal ==
    /\ \/ \E h \in HeaderInputs \cup HeaderTocInputs,
             fs \in HeaderFileSizes :
            call = [fn |-> "header", header |-> h, file_size |-> fs]
       \/ \E e \in TocEntryInputs, fs \in TocEntryFileSizes :
            call = [fn |-> "toc_entry", entry |-> e, file_size |-> fs]
       \/ \E d \in DescriptorInputs :
            call = [fn |-> "signed_descriptor", descriptor |-> d]
       \/ \E q \in ParameterInputs \cup ParameterRangeInputs :
            call = [fn |-> "parameter_config", param |-> q]
       \/ \E c \in ProgramInputs \cup ProgramIdentityInputs :
            call = [fn |-> "program_config", config |-> c]
    /\ ret = "pending"
    /\ ReaderInit
    /\ ControllerIdle
    /\ last = NoLast

ValidateHeader ==
    /\ ret = "pending" /\ call.fn = "header"
    /\ ret' = validate_vmprog_header_v1_0(call.header, call.file_size)
    /\ UNCHANGED <<call, readerVars, last, controllerVars>>

ValidateTocEntry ==
    /\ ret = "pending" /\ call.fn = "toc_entry"
    /\ ret' = validate_vmprog_toc_entry_v1_0(call.entry, call.file_size)
    /\ UNCHANGED <<call, readerVars, last, controllerVars>>

ValidateSignedDescriptor ==
    /\ ret = "pending" /\ call.fn = "signed_descriptor"
    /\ ret' = validate_vmprog_signed_descriptor_v1_0(call.descriptor)
    /\ UNCHANGED <<call, readerVars, last, controllerVars>>

ValidateParameterConfig ==
    /\ ret = "pending" /\ call.fn = "parameter_config"
    /\ ret' = validate_vmprog_parameter_config_v1_0(call.param)
    /\ UNCHANGED <<call, readerVars, last, controllerVars>>

ValidateProgramConfig ==
    /\ ret = "pending" /\ call.fn = "program_config"
    /\ ret' = validate_vmprog_program_config_v1_0(call.config)
    /\ UNCHANGED <<call, readerVars, last, controllerVars>>

NextVal ==
    \/ ValidateHeader
    \/ ValidateTocEntry
    \/ ValidateSignedDescriptor
    \/ ValidateParameterConfig
    \/ ValidateProgramConfig

SpecVal == InitVal /\ [][NextVal]_vars

-----------------------------------------------------------------------------
(* Package files offered to the package-level entry points                 *)

\* a TOC entry for the bytes [at, at + size) with their hash
Entry(type, at, size) ==
    [type |-> type, flags |-> 0, offset |-> V32(at), size |-> V32(size),
     sha256 |-> sha256_oneshot([id |-> At(PayloadIds, V32(at), 0),
                                len |-> size]),
     reserved |-> <<0, 0, 0, 0>>]

\* the same entry with a stored hash that matches no payload
BadHash(entry) == [entry EXCEPT !.sha256 = sha256_oneshot([id |-> 0, len |-> 0])]

Descriptor(at) ==
    Entry(type_signed_descriptor, at, signed_descriptor_struct_size)
Signature(at) == Entry(type_signature, at, VMPROG_SIGNATURE_SIZE)
Config(at) == Entry(type_config, at, program_config_struct_size)

\* what a TOC holds for each kind of entry: nothing, or one entry
DescMenu ==
    << <<>>, <<Descriptor(DescGoodAt)>>, <<Descriptor(DescWrongCfgAt)>>,
       <<Descriptor(DescInvalidAt)>>,
       <<Entry(type_signed_descriptor, DescGoodAt,
               signed_descriptor_struct_size - 32)>>,
       <<BadHash(Descriptor(DescGoodAt))>> >>

SigMenu ==
    << <<>>, <<Signature(SigGoodAt)>>, <<Signature(SigWrongCfgAt)>>,
       <<Signature(SigInvalidAt)>>, <<Signature(SigOtherKeyAt)>>,
       <<Entry(type_signature, SigGoodAt, VMPROG_SIGNATURE_SIZE \div 2)>> >>

CfgMenu ==
    << <<>>, <<Config(CfgGoodAt)>>, <<Config(CfgInvalidAt)>>,
       <<BadHash(Config(CfgGoodAt))>> >>

\* a second entry of a type, stored ahead of the first
FrontMenu ==
    << <<>>, <<Config(CfgOtherAt)>>, <<Descriptor(DescWrongCfgAt)>>,
       <<Signature(SigOtherKeyAt)>> >>

\* a bitstream, an entry without payload, an entry past the end of the
\* file, an entry of type none, a second config
BackMenu ==
    << <<>>, <<Entry(type_fpga_bitstream, BitstreamAt, BitstreamSize)>>,
       <<[Entry(type_fpga_bitstream, BitstreamAt, 0) EXCEPT !.sha256 = 0]>>,
       <<Entry(type_fpga_bitstream, PackageSize, BitstreamSize)>>,
       <<init_toc_entry>>, <<Config(CfgOtherAt)>> >>

HeaderKinds == <<"unsigned", "signed", "bad_magic", "toc_count_17", "truncated">>

PkgHeader(kind, n) ==
    [init_vmprog_header EXCEPT
        !.magic = IF HeaderKinds[kind] = "bad_magic" THEN 0 ELSE expected_magic,
        !.flags = IF HeaderKinds[kind] = "unsigned" THEN 0 ELSE signed_pkg,
        !.file_size = IF HeaderKinds[kind] = "truncated"
                      THEN V32(header_struct_size \div 2) ELSE V32(PackageSize),
        !.toc_offset = V32(TocOffset),
        !.toc_count = IF HeaderKinds[kind] = "toc_count_17"
                      THEN V32(vmprog_stream_max_toc_entries + 1) ELSE V32(n),
        !.toc_bytes = IF HeaderKinds[kind] = "toc_count_17"
                      THEN V32(TocAreaSize)
                      ELSE V32(n * toc_entry_struct_size)]

\* a file with its sha256_package absent ("zero"), right ("good") or wrong
WithPackageHash(file, pkg) ==
    [file EXCEPT !.header.sha256_package =
        CASE pkg = "zero" -> 0
          [] pkg = "good" -> calculate_package_sha256(file)
          [] OTHER -> calculate_package_sha256(file) + 1]

\* the file with header kind k and TOC f \o d \o s \o c \o b from the
\* menus; the id tells the files apart (no menu has more than 6 choices)
PkgFile(k, d, s, c, f, b, pkg) ==
    LET File(toc, header) ==
            [id |-> 100 + (((((k - 1) * 6 + (d - 1)) * 6 + (s - 1)) * 6
                            + (c - 1)) * 6 + (f - 1)) * 6 + (b - 1),
             size |-> header.file_size, header |-> header, toc |-> toc]
        Toc(toc) == File(toc, PkgHeader(k, Len(toc)))
    IN  WithPackageHash(
            Toc(FrontMenu[f] \o DescMenu[d] \o SigMenu[s] \o CfgMenu[c]
                \o BackMenu[b]), pkg)

\* at most one entry beyond descriptor, signature and config
ExtraSlots ==
    { <<f, 1>> : f \in DOMAIN FrontMenu } \cup { <<1, b>> : b \in DOMAIN BackMenu }

MenuFiles ==
    { PkgFile(k, d, s, c, e[1], e[2], "zero") :
        k \in 1..2, d \in DOMAIN DescMenu, s \in DOMAIN SigMenu,
        c \in DOMAIN CfgMenu, e \in ExtraSlots }

EdgeFiles ==
    { PkgFile(k, 2, 2, 2, 1, b, pkg) :
        k \in DOMAIN HeaderKinds, b \in 1..2, pkg \in {"zero", "good", "bad"} }

\* the files read through a faulty stream
FaultFiles ==
    { PkgFile(k, d, s, c, 1, b, "zero") :
        k \in 1..2, d \in 1..2, s \in 1..2, c \in 1..2, b \in 1..2 }

Policies ==
    { [verify_signature |-> FALSE, public_key |-> "nullptr"] }
    \cup { [verify_signature |-> TRUE, public_key |-> k] :
             k \in {"nullptr", "key1", "key2"} }

NullScratch == [buffer |-> "nullptr", size |-> V32(0)]
FullScratch == [buffer |-> "buffer", size |-> V32(PackageSize)]

SmallScratch ==
    [buffer |-> "buffer", size |-> V32(2 * signed_descriptor_struct_size)]

Scratches ==
    { NullScratch, FullScratch, SmallScratch,
      [buffer |-> "buffer", size |-> V32(0)] }

HashPlans(scratches) ==
    { [verify_hashes |-> FALSE, scratch |-> NullScratch] }
    \cup { [verify_hashes |-> TRUE, scratch |-> sc] : sc \in scratches }

\* the stream call that fails, counted from 1 within the operation;
\* 0 for a stream without faults
MaxFailAt == 10

PkgCall(fn, file, hp, pol, failAt, partial) ==
    [fn |-> fn, file |-> file, verify_hashes |-> hp.verify_hashes,
     scratch |-> hp.scratch, verify_signature |-> pol.verify_signature,
     public_key |-> pol.public_key, failAt |-> failAt, partial |-> partial]

NoSignature == [verify_signature |-> FALSE, public_key |-> "nullptr"]

-----------------------------------------------------------------------------
(* SpecPkg: one call of a package-level entry point on a package file      *)

InitPkg ==
    /\ \/ \E f \in MenuFiles \cup EdgeFiles, vh \in BOOLEAN, pol \in Policies :
            call = PkgCall("validate_vmprog_package", f,
                           [verify_hashes |-> vh, scratch |-> NullScratch],
                           pol, 0, FALSE)
       \/ \E f \in MenuFiles,
             hp \in HashPlans({FullScratch, SmallScratch}), pol \in Policies :
            call = PkgCall("validate_vmprog_package_stream", f, hp, pol,
                           0, FALSE)
       \/ \E f \in EdgeFiles, hp \in HashPlans(Scratches), pol \in Policies :
            call = PkgCall("validate_vmprog_package_stream", f, hp, pol,
                           0, FALSE)
       \/ \E f \in FaultFiles, vh \in BOOLEAN, pol \in Policies,
             n \in 1..MaxFailAt :
            call = PkgCall("validate_vmprog_package_stream", f,
                           [verify_hashes |-> vh, scratch |-> FullScratch],
                           pol, n, FALSE)
       \/ \E f \in MenuFiles, hp \in HashPlans({FullScratch, SmallScratch}) :
            call = PkgCall("open", f, hp, NoSignature, 0, FALSE)
       \/ \E f \in EdgeFiles, hp \in HashPlans(Scratches) :
            call = PkgCall("open", f, hp, NoSignature, 0, FALSE)
       \/ \E f \in FaultFiles, vh \in BOOLEAN, n \in 1..MaxFailAt,
             p \in BOOLEAN :
            call = PkgCall("open", f,
                           [verify_hashes |-> vh, scratch |-> FullScratch],
                           NoSignature, n, p)
    /\ ret = "pending"
    /\ ReaderInit
    /\ ControllerIdle
    /\ last = NoLast

ValidatePackage ==
    /\ ret = "pending" /\ call.fn = "validate_vmprog_package"
    /\ ret' = validate_vmprog_package(call.file, call.file.size,
                  call.verify_hashes, call.verify_signature, call.public_key)
    /\ last' = [NoLast EXCEPT !.op = call.fn]
    /\ UNCHANGED <<call, readerVars, controllerVars>>

ValidatePackageStream ==
    /\ ret = "pending" /\ call.fn = "validate_vmprog_package_stream"
    /\ LET r == validate_vmprog_package_stream(
                    NewIo(call.failAt, call.partial), call.file, call.file.size,
                    call.verify_hashes, call.verify_signature, call.public_key,
                    call.scratch)
       IN  /\ ret' = r.res
           /\ last' = [NoLast EXCEPT !.op = call.fn, !.log = r.io.log,
                                     !.at = r.at]
    /\ UNCHANGED <<call, readerVars, controllerVars>>

\* open on a newly constructed reader
OpenNew ==
    /\ ret = "pending" /\ call.fn = "open"
    /\ LET r == open(Reader, NewIo(call.failAt, call.partial), call.file,
                     call.file.size, call.verify_hashes, call.scratch)
       IN  /\ ret' = r.res
           /\ stream_' = r.reader.stream_
           /\ file_size_' = r.reader.file_size_
           /\ is_open_' = r.reader.is_open_
           /\ header_' = r.reader.header_
           /\ toc_' = r.reader.toc_
           /\ last' = [op |-> call.fn, log |-> r.io.log, at |-> r.at,
                       open_result |-> r.res]
    /\ UNCHANGED <<call, controllerVars>>

NextPkg ==
    \/ ValidatePackage
    \/ ValidatePackageStream
    \/ OpenNew

SpecPkg == InitPkg /\ [][NextPkg]_vars

-----------------------------------------------------------------------------
(* Spec: one vmprog_package_reader over its lifetime, any sequence of      *)
(* open, read_config, read_payload_by_type, read_bitstream and             *)
(* verify_signature calls                                                  *)

\* how many calls a reader receives
MaxCalls == 3

\* the packages a reader is opened on: unsigned, signed and bad-magic
\* headers over a config-only TOC, a full signed TOC, a TOC whose config
\* hash is wrong and a TOC with an entry past the end of the file
ReaderFiles ==
    { PkgFile(k, 1, 1, 2, 1, 1, "zero") : k \in 1..3 }
    \cup { PkgFile(k, 2, 2, 2, 1, 2, "zero") : k \in 1..3 }
    \cup { PkgFile(k, 2, 2, 4, 1, 1, "zero") : k \in 1..3 }
    \cup { PkgFile(k, 1, 1, 2, 1, 4, "zero") : k \in 1..3 }

\* the faults of a reader's stream: none, or one of the first calls
MaxReaderFailAt == 4

InitReader ==
    /\ call = [fn |-> "reader", n |-> 0]
    /\ ret = "pending"
    /\ ReaderInit
    /\ ControllerIdle
    /\ last = NoLast

\* what every reader call does to call, ret and last
Called(op, r, at, open_result) ==
    /\ call' = [call EXCEPT !.n = @ + 1]
    /\ ret' = r.res
    /\ last' = [op |-> op, log |-> r.io.log, at |-> at,
                open_result |-> open_result]

Open ==
    /\ call.n < MaxCalls
    /\ \E f \in ReaderFiles, hp \in HashPlans({NullScratch, FullScratch}),
          n \in 0..MaxReaderFailAt, p \in BOOLEAN :
         LET Opened(r) ==
                 /\ stream_' = r.reader.stream_
                 /\ file_size_' = r.reader.file_size_
                 /\ is_open_' = r.reader.is_open_
                 /\ header_' = r.reader.header_
                 /\ toc_' = r.reader.toc_
                 /\ Called("open", r, r.at, r.res)
         IN  Opened(open(Reader, NewIo(n, p), f, f.size, hp.verify_hashes,
                         hp.scratch))
    /\ UNCHANGED controllerVars

ReadConfig ==
    /\ call.n < MaxCalls
    /\ \E n \in 0..2 :
         Called("read_config", read_config(Reader, NewIo(n, FALSE)),
                "none", last.open_result)
    /\ UNCHANGED <<readerVars, controllerVars>>

ReadPayloadByType ==
    /\ call.n < MaxCalls
    /\ \E type \in {type_config, type_signature, type_bitstream_hd_dual},
          size \in {SmallScratch.size, FullScratch.size}, n \in 0..2 :
         Called("read_payload_by_type",
                read_payload_by_type(Reader, NewIo(n, FALSE), type, size),
                "none", last.open_result)
    /\ UNCHANGED <<readerVars, controllerVars>>

ReadBitstream ==
    /\ call.n < MaxCalls
    /\ \E size \in {SmallScratch.size, FullScratch.size}, n \in 0..2 :
         Called("read_bitstream",
                read_bitstream(Reader, NewIo(n, FALSE), size),
                "none", last.open_result)
    /\ UNCHANGED <<readerVars, controllerVars>>

VerifySignature ==
    /\ call.n < MaxCalls
    /\ \E key \in {"nullptr", "key1", "key2"}, n \in 0..MaxReaderFailAt :
         Called("verify_signature",
                verify_signature(Reader, NewIo(n, FALSE), key),
                "none", last.open_result)
    /\ UNCHANGED <<readerVars, controllerVars>>

Next ==
    \/ Open
    \/ ReadConfig
    \/ ReadPayloadByType
    \/ ReadBitstream
    \/ VerifySignature

Spec == InitReader /\ [][Next]_vars

-----------------------------------------------------------------------------
(* SpecHash: one call of a function of the hash and TOC layer              *)

\* the entries a walked TOC is made of: a config, a config with a wrong
\* stored hash, an entry without payload, a bitstream, an entry of type
\* none with a payload, an entry past the end of the file, a descriptor
WalkMenu ==
    << Config(CfgGoodAt), BadHash(Config(CfgGoodAt)),
       [Entry(type_fpga_bitstream, BitstreamAt, 0) EXCEPT !.sha256 = 0],
       Entry(type_fpga_bitstream, BitstreamAt, BitstreamSize),
       Entry(type_none, BitstreamAt, BitstreamSize),
       Entry(type_fpga_bitstream, PackageSize, BitstreamSize),
       Descriptor(DescGoodAt) >>

\* the longest walked TOC
MaxWalkToc == 3

\* the choices of entries for TOCs of 1..MaxWalkToc entries
WalkTocs ==
    UNION { [1..n -> DOMAIN WalkMenu] : n \in 1..MaxWalkToc }

\* the unsigned package whose TOC is the chosen entries
WalkFile(w) ==
    LET Digit(i) == IF i <= Len(w) THEN w[i] ELSE 0
        File(header) ==
            [id |-> 40000 + ((Digit(1) * 8 + Digit(2)) * 8 + Digit(3)) * 8
                          + Digit(4),
             size |-> header.file_size, header |-> header,
             toc |-> [i \in 1..Len(w) |-> WalkMenu[w[i]]]]
    IN  File(PkgHeader(1, Len(w)))

WalkFiles == { WalkFile(w) : w \in WalkTocs }

\* the faults of the stream during a hash walk or a TOC read
MaxWalkFailAt == 4

\* the capacities of the caller's TOC buffer
TocCapacities == {1, 2, vmprog_stream_max_toc_entries}

FnCall(fn, file, scratch, failAt, capacity) ==
    [fn |-> fn, file |-> file, verify_hashes |-> TRUE, scratch |-> scratch,
     verify_signature |-> FALSE, public_key |-> "nullptr", failAt |-> failAt,
     partial |-> FALSE, max_toc_entries |-> capacity]

InitHash ==
    /\ \/ \E f \in EdgeFiles :
            call = FnCall("verify_package_sha256", f, NullScratch, 0, 0)
       \/ \E f \in WalkFiles :
            call = FnCall("verify_all_payload_hashes", f, NullScratch, 0, 0)
       \/ \E f \in WalkFiles, sc \in {FullScratch, SmallScratch},
             n \in 0..MaxWalkFailAt :
            call = FnCall("verify_all_payload_hashes_stream", f, sc, n, 0)
       \/ \E f \in WalkFiles \cup EdgeFiles, n \in 0..2, c \in TocCapacities :
            call = FnCall("read_vmprog_toc", f, NullScratch, n, c)
       \/ \E f \in EdgeFiles, hp \in HashPlans(Scratches),
             fn \in {"validate_vmprog_package_stream", "open"} :
            call = PkgCall(fn, f, hp, NoSignature, 0, FALSE)
    /\ ret = "pending"
    /\ ReaderInit
    /\ ControllerIdle
    /\ last = NoLast

VerifyPackageSha256 ==
    /\ ret = "pending" /\ call.fn = "verify_package_sha256"
    /\ ret' = IF verify_package_sha256(call.file, call.file.size)
              THEN "true" ELSE "false"
    /\ last' = [NoLast EXCEPT !.op = call.fn]
    /\ UNCHANGED <<call, readerVars, controllerVars>>

VerifyAllPayloadHashes ==
    /\ ret = "pending" /\ call.fn = "verify_all_payload_hashes"
    /\ ret' = verify_all_payload_hashes(call.file, call.file.size,
                                        call.file.header)
    /\ last' = [NoLast EXCEPT !.op = call.fn]
    /\ UNCHANGED <<call, readerVars, controllerVars>>

VerifyAllPayloadHashesStream ==
    /\ ret = "pending" /\ call.fn = "verify_all_payload_hashes_stream"
    /\ LET Done(r) ==
               /\ ret' = r.res
               /\ last' = [NoLast EXCEPT !.op = call.fn, !.log = r.io.log]
       IN  Done(verify_all_payload_hashes_stream(
                    NewIo(call.failAt, call.partial), call.file, call.file.toc,
                    Len(call.file.toc), call.scratch.size))
    /\ UNCHANGED <<call, readerVars, controllerVars>>

\* read_vmprog_toc into a caller's buffer of max_toc_entries entries;
\* last.out_toc is the buffer after the call
ReadVmprogToc ==
    /\ ret = "pending" /\ call.fn = "read_vmprog_toc"
    /\ LET Done(r) ==
               /\ ret' = r.res
               /\ last' = [op |-> call.fn, log |-> r.io.log, at |-> "none",
                           open_result |-> "none", out_toc |-> r.toc]
       IN  Done(read_vmprog_toc(
                    NewIo(call.failAt, call.partial), call.file,
                    call.file.header,
                    [i \in 1..call.max_toc_entries |-> init_toc_entry],
                    call.max_toc_entries))
    /\ UNCHANGED <<call, readerVars, controllerVars>>

NextHash ==
    \/ VerifyPackageSha256
    \/ VerifyAllPayloadHashes
    \/ VerifyAllPayloadHashesStream
    \/ ReadVmprogToc
    \/ ValidatePackageStream
    \/ OpenNew

SpecHash == InitHash /\ [][NextHash]_vars

-----------------------------------------------------------------------------
(* Properties of the structural validators (checked under SpecVal)         *)

Returned == ret # "pending"

\* C3: an accepted TOC entry has a type, an offset in [64, file_size) and a
\* payload span that ends inside the file, in exact arithmetic; an entry
\* (of a type other than none) whose span runs beyond the file is rejected
\* with invalid_payload_offset.
C3_TocEntryWithinFile ==
    (Returned /\ call.fn = "toc_entry") =>
        LET e == call.entry
            fs == call.file_size
            inside == Le32(XAdd(e.offset, e.size), fs)
        IN  /\ ret = "ok" =>
                /\ e.type # type_none
                /\ Le32(V32(header_struct_size), e.offset)
                /\ Lt32(e.offset, fs)
                /\ inside
            /\ (~inside /\ e.type # type_none) => ret = "invalid_payload_offset"

\* the header checks in their documented order, each stated on its own in
\* exact arithmetic: <<violated, code>>
HeaderChecks(h, fs) ==
    << <<h.magic # expected_magic, "invalid_magic">>,
       <<h.version_major # 1, "invalid_version">>,
       <<h.header_size # 64, "invalid_header_size">>,
       <<Lt32(fs, V32(64)) \/ Gt32(fs, V32(1048576)) \/ h.file_size # fs,
         "invalid_file_size">>,
       <<Lt32(h.toc_count, V32(1)) \/ Gt32(h.toc_count, V32(256)),
         "invalid_toc_count">>,
       <<Lt32(h.toc_offset, V32(64)) \/ ~Lt32(h.toc_offset, fs),
         "invalid_toc_offset">>,
       <<h.toc_bytes # XMul(h.toc_count, 64)
            \/ Gt32(XAdd(h.toc_offset, XMul(h.toc_count, 64)), fs),
         "invalid_toc_size">> >>

FirstViolated(checks) ==
    LET bad == { i \in 1..Len(checks) : checks[i][1] }
    IN  IF bad = {} THEN "ok"
        ELSE checks[CHOOSE i \in bad : \A j \in bad : i <= j][2]

\* C6: validate_vmprog_header_v1_0 returns the code of the earliest violated
\* check in the order magic, version major, header size, file-size envelope,
\* TOC count, TOC offset, TOC byte size, and ok exactly when none is violated.
C6_HeaderCheckOrder ==
    (Returned /\ call.fn = "header") =>
        ret = FirstViolated(HeaderChecks(call.header, call.file_size))

\* a header violating the TOC count, TOC offset and TOC size constraints at
\* once has been reported as invalid_toc_count
C6_Witness ==
    /\ call.fn = "header" /\ ret = "invalid_toc_count"
    /\ HeaderChecks(call.header, call.file_size)[6][1]
    /\ HeaderChecks(call.header, call.file_size)[7][1]

\* the reserved bytes of the record a call validates are not all zero
HasNonZeroReserved(c) ==
    CASE c.fn = "header" -> c.header.reserved_pad # 0
      [] c.fn = "toc_entry" -> \E i \in 1..4 : c.entry.reserved[i] # 0
      [] c.fn = "signed_descriptor" ->
            \E i \in 1..3 : c.descriptor.reserved_pad[i] # 0
      [] c.fn = "parameter_config" ->
            \E i \in 1..2 : c.param.reserved_pad[i] # 0 \/ c.param.reserved[i] # 0
      [] c.fn = "program_config" ->
            \/ c.config.reserved_pad # 0
            \/ \E i \in 1..2 : c.config.reserved[i] # 0
      [] OTHER -> FALSE

\* C7: every structural validator rejects a record with a non-zero reserved
\* byte (Header, TocEntry, SignedDescriptor, ParameterConfig, ProgramConfig).
C7_ReservedBytesRejected ==
    (Returned /\ HasNonZeroReserved(call)) => ret # "ok"

\* a flags field carries a bit the format does not define
HasUnknownFlagBits(c) ==
    CASE c.fn = "header" -> c.header.flags \div 2 # 0
      [] c.fn = "toc_entry" -> c.entry.flags # 0
      [] c.fn = "signed_descriptor" -> c.descriptor.flags # 0
      [] OTHER -> FALSE

\* C8: the validators reject unknown flag bits: any flags of a TOC entry or a
\* signed descriptor, and any header flag other than bit 0.
C8_UnknownFlagBitsRejected ==
    (Returned /\ HasUnknownFlagBits(call)) => ret # "ok"

\* an enumeration field holds a value outside its documented enumeration
HasEnumOutOfRange(c) ==
    CASE c.fn = "toc_entry" -> c.entry.type \notin 1..10
      [] c.fn = "signed_descriptor" ->
            \E i \in 1..max_artifacts :
                /\ i <= c.descriptor.artifact_count
                /\ c.descriptor.artifacts[i].type \notin 1..10
      [] c.fn = "parameter_config" ->
            c.param.parameter_id \notin 1..12 \/ c.param.control_mode \notin 0..35
      [] OTHER -> FALSE

\* C9: no validator accepts an enumeration field outside its enumeration
\* (TocEntry type, used ArtifactHash type, parameter_id, control_mode).
C9_EnumOutOfRangeRejected ==
    (Returned /\ HasEnumOutOfRange(call)) => ret # "ok"



-----------------------------------------------------------------------------
(* Properties of the package-level entry points (checked under SpecPkg)    *)

\* the TOC entries of the called package that the header's toc_count covers
CalledToc == BufferToc(call.file, call.file.header)

\* the keys a call trusts: the caller's key, or the built-in keys when the
\* caller passes none
TrustedKeys(public_key) ==
    IF public_key = "nullptr"
    THEN {vmprog_public_keys[i] : i \in 1..Len(vmprog_public_keys)}
    ELSE {public_key}

\* the stored payload of a TOC entry hashes to the entry's sha256
StoredHashMatches(file, entry) ==
    sha256_oneshot(PayloadBytes(file, entry.offset, entry.size)) = entry.sha256

\* a signed-valid package: signed flag set, a signed_descriptor entry and a
\* signature entry that validate structurally and by hash, and a signature
\* by a trusted key over the stored bytes of the descriptor
SignedValid(file, toc, public_key) ==
    /\ is_package_signed(file.header)
    /\ \E d \in 1..Len(toc), g \in 1..Len(toc) :
        /\ toc[d].type = type_signed_descriptor
        /\ toc[g].type = type_signature
        /\ validate_vmprog_toc_entry_v1_0(toc[d], file.size) = "ok"
        /\ validate_vmprog_toc_entry_v1_0(toc[g], file.size) = "ok"
        /\ toc[d].size = V32(signed_descriptor_struct_size)
        /\ toc[g].size = V32(VMPROG_SIGNATURE_SIZE)
        /\ validate_vmprog_signed_descriptor_v1_0(
               DescriptorAt(file, toc[d].offset)) = "ok"
        /\ StoredHashMatches(file, toc[d])
        /\ StoredHashMatches(file, toc[g])
        /\ SignatureAt(file, toc[g].offset).key \in TrustedKeys(public_key)
        /\ SignatureAt(file, toc[g].offset).msg
             = PayloadBytes(file, toc[d].offset, toc[d].size)

\* C1: with verify_signature requested, validate_vmprog_package and
\* validate_vmprog_package_stream return ok only for a signed-valid package
C1_OkOnlyForSignedValid ==
    ( /\ Returned
      /\ call.fn \in {"validate_vmprog_package",
                      "validate_vmprog_package_stream"}
      /\ call.verify_signature
      /\ ret = "ok" )
    => SignedValid(call.file, CalledToc, call.public_key)

\* the first entry of a type in the called package's TOC
FirstOf(type) == CalledToc[find_toc_entry(CalledToc, Len(CalledToc), type)]

HasEntry(type) == find_toc_entry(CalledToc, Len(CalledToc), type) # 0

\* C2: when a package-level call with verify_signature returns ok on a
\* signed-valid package that contains a config entry, the signed
\* descriptor's config_sha256 is the hash of the config payload as stored
C2_ConfigHashBound ==
    ( /\ Returned
      /\ call.fn \in {"validate_vmprog_package",
                      "validate_vmprog_package_stream"}
      /\ call.verify_signature
      /\ ret = "ok"
      /\ SignedValid(call.file, CalledToc, call.public_key)
      /\ count_toc_entries(CalledToc, Len(CalledToc),
                           type_signed_descriptor) = 1
      /\ HasEntry(type_config) )
    => DescriptorAt(call.file, FirstOf(type_signed_descriptor).offset)
         .config_sha256
       = sha256_oneshot(PayloadBytes(call.file, FirstOf(type_config).offset,
                                     FirstOf(type_config).size))

\* the order of the steps of the stream entry points
Rank(step) ==
    CASE step = "header" -> 1
      [] step = "toc" -> 2
      [] step = "hash" -> 3
      [] step = "config" -> 4
      [] step = "signature" -> 5
      [] OTHER -> 6

\* the result code of a failure of the i-th stream operation of a call
FailCode(log, i) ==
    CASE log[i].step = "header" -> "invalid_file_size"
      [] log[i].step = "toc" ->
            IF log[i].op = "seek" THEN "invalid_toc_offset"
            ELSE "invalid_toc_size"
      [] log[i].step = "signature" ->
            IF i + 2 <= Len(log) \/ i < 3 \/ log[i - 2].step # "signature"
            THEN "invalid_payload_offset" ELSE "invalid_hash"
      [] OTHER -> "invalid_payload_offset"

OpsOf(log, step) == Cardinality({i \in 1..Len(log) : log[i].step = step})

NonEmptyEntries(toc) == Cardinality({i \in 1..Len(toc) : toc[i].size # V32(0)})

C10_SingletonEntries ==
    ( /\ Returned
      /\ call.fn \in {"validate_vmprog_package",
                      "validate_vmprog_package_stream", "open"}
      /\ ret = "ok" )
    => \A type \in {type_config, type_signed_descriptor, type_signature} :
         count_toc_entries(CalledToc, Len(CalledToc), type) <= 1

-----------------------------------------------------------------------------
(* Properties of a reader over its lifetime (checked under Spec)           *)

\* C4: is_open() is true only when the most recent open returned ok and
\* then the cached header and TOC are those of that package; after a failed
\* open toc_count() is 0, is_signed() is false, and read_config,
\* read_payload_by_type, read_bitstream and verify_signature do not
\* return ok
C4_FailedOpenLeavesReaderClosed ==
    /\ is_open(Reader) =>
         /\ last.open_result = "ok"
         /\ header_ = stream_.header
         /\ validate_vmprog_header_v1_0(header_, file_size_) = "ok"
         /\ \A i \in 1..N32(header_.toc_count) : toc_[i] = stream_.toc[i]
    /\ last.open_result \notin {"ok", "none"} =>
         /\ ~is_open(Reader)
         /\ toc_count(Reader) = V32(0)
         /\ ~is_signed(Reader)
         /\ last.op # "open" => ret # "ok"

-----------------------------------------------------------------------------
(* Further properties of the package-level entry points (under SpecPkg)    *)

\* C11: with verify_signature requested on a package whose signed flag is
\* set, a signed_descriptor entry whose size is not 332 or a signature
\* entry whose size is not 64 gives a non-ok result
C11_ExactEntrySizes ==
    ( /\ Returned
      /\ call.fn \in {"validate_vmprog_package",
                      "validate_vmprog_package_stream"}
      /\ call.verify_signature
      /\ is_package_signed(call.file.header)
      /\ validate_vmprog_header_v1_0(call.file.header, call.file.size) = "ok"
      /\ \/ /\ HasEntry(type_signed_descriptor)
            /\ FirstOf(type_signed_descriptor).size
                 # V32(signed_descriptor_struct_size)
         \/ /\ HasEntry(type_signature)
            /\ FirstOf(type_signature).size # V32(VMPROG_SIGNATURE_SIZE) )
    => ret # "ok"

-----------------------------------------------------------------------------
(* Properties of the hash and TOC layer (checked under SpecHash)           *)

\* C12: verify_package_sha256 returns success for every file (of at least
\* a header's size) whose sha256_package field is all zero
C12_ZeroPackageHashIsAbsent ==
    ( /\ Returned
      /\ call.fn = "verify_package_sha256"
      /\ Ge32(call.file.size, V32(header_struct_size))
      /\ is_hash_zero(call.file.header.sha256_package) )
    => ret = "true"

\* the indices of the entries with a payload, in increasing order
NonEmpty(toc) ==
    SelectSeq([i \in 1..Len(toc) |-> i], LAMBDA i : toc[i].size # V32(0))

\* the payload of every non-empty entry lies within the file
Readable(file) ==
    \A i \in 1..Len(file.toc) :
        file.toc[i].size # V32(0) =>
            Le32(XAdd(file.toc[i].offset, file.toc[i].size), file.size)

\* the non-empty entries whose stored hash differs from their payload's
Mismatches(file) ==
    { i \in 1..Len(file.toc) :
        file.toc[i].size # V32(0) /\ ~StoredHashMatches(file, file.toc[i]) }

\* a hash walk over readable payloads, with a scratch buffer that holds
\* each of them and a stream without faults
WalkUnhindered ==
    /\ Returned
    /\ call.fn \in {"verify_all_payload_hashes",
                    "verify_all_payload_hashes_stream"}
    /\ Readable(call.file)
    /\ call.failAt = 0
    /\ call.fn = "verify_all_payload_hashes_stream" =>
         \A i \in 1..Len(call.file.toc) :
             Le32(call.file.toc[i].size, call.scratch.size)

\* the stream calls of a walk are the seek and the read of the non-empty
\* entries in increasing index order, up to the entry the walk stopped at
WalkInIndexOrder(toc, log) ==
    LET Visits(order) ==
            /\ Len(log) <= 2 * Len(order)
            /\ \A j \in 1..Len(log) :
                 /\ log[j].op = (IF j % 2 = 1 THEN "seek" ELSE "read")
                 /\ log[j].arg = (IF j % 2 = 1
                                  THEN toc[order[(j + 1) \div 2]].offset
                                  ELSE toc[order[j \div 2]].size)
    IN  Visits(NonEmpty(toc))

\* the number of non-empty entries up to and including entry i
VisitedUpTo(toc, i) ==
    Cardinality({ j \in 1..i : toc[j].size # V32(0) })

\* the result of an unhindered walk: invalid_hash at the first mismatch
\* with no later payload read, ok when there is none
WalkResult(file, log) ==
    LET First(bad) ==
            IF bad = {} THEN
                /\ ret = "ok"
                /\ call.fn = "verify_all_payload_hashes_stream" =>
                     Len(log) = 2 * Len(NonEmpty(file.toc))
            ELSE
                /\ ret = "invalid_hash"
                /\ call.fn = "verify_all_payload_hashes_stream" =>
                     Len(log) = 2 * VisitedUpTo(file.toc,
                                    CHOOSE i \in bad : \A j \in bad : i <= j)
    IN  First(Mismatches(file))

\* C13 as stated: both walks visit the entries in increasing index order,
\* skip empty entries, stop with invalid_hash at the first mismatch without
\* reading a later payload, and over readable payloads with sufficient
\* scratch return ok exactly when every non-empty entry matches
C13_HashWalk ==
    /\ ( Returned /\ call.fn = "verify_all_payload_hashes_stream" )
       => WalkInIndexOrder(call.file.toc, last.log)
    /\ WalkUnhindered => WalkResult(call.file, last.log)

\* every non-empty entry passes validate_vmprog_toc_entry_v1_0
EntriesValid(file) ==
    \A i \in 1..Len(file.toc) :
        file.toc[i].size # V32(0) =>
            validate_vmprog_toc_entry_v1_0(file.toc[i], file.size) = "ok"

\* C13 amended: as C13, for verify_all_payload_hashes over a TOC whose
\* non-empty entries pass validate_vmprog_toc_entry_v1_0 (the buffer walk
\* validates each entry before hashing it and returns that validation's
\* code first)
C13_HashWalkOverValidEntries ==
    /\ ( Returned /\ call.fn = "verify_all_payload_hashes_stream" )
       => WalkInIndexOrder(call.file.toc, last.log)
    /\ ( /\ WalkUnhindered
         /\ call.fn = "verify_all_payload_hashes" => EntriesValid(call.file) )
       => WalkResult(call.file, last.log)

\* a stream walk stops at a mismatch in the second of three non-empty
\* entries, after reading two payloads
C13_Witness ==
    /\ WalkUnhindered
    /\ call.fn = "verify_all_payload_hashes_stream"
    /\ Len(NonEmpty(call.file.toc)) = 3
    /\ Mismatches(call.file) = {2}
    /\ ret = "invalid_hash"
    /\ Len(last.log) = 4

\* the capacity of the TOC buffer a call reads into
Capacity ==
    IF call.fn = "read_vmprog_toc" THEN call.max_toc_entries
    ELSE vmprog_stream_max_toc_entries

\* a TOC buffer nothing was written to
UntouchedToc(capacity) == [i \in 1..capacity |-> init_toc_entry]

\* a call that got to its TOC step with a header that declares more
\* entries than the TOC buffer holds
TocOverCapacity ==
    /\ Returned
    /\ call.fn \in {"read_vmprog_toc", "validate_vmprog_package_stream",
                    "open"}
    /\ call.fn # "read_vmprog_toc" => last.at # "header"
    /\ Gt32(call.file.header.toc_count, V32(Capacity))

\* C14: a toc_count above the capacity of the TOC buffer gives
\* invalid_toc_count without a seek to or a read of the TOC, and the TOC
\* buffer is left as it was
C14_TocCountOverCapacity ==
    TocOverCapacity =>
        /\ ret = "invalid_toc_count"
        /\ OpsOf(last.log, "toc") = 0
        /\ call.fn = "read_vmprog_toc" =>
             last.out_toc = UntouchedToc(call.max_toc_entries)
        /\ call.fn = "open" =>
             /\ toc_ = UntouchedToc(vmprog_stream_max_toc_entries)
             /\ ~is_open_

\* open on a package whose valid header declares 17 entries
C14_Witness ==
    /\ TocOverCapacity
    /\ call.fn = "open"
    /\ OpsOf(last.log, "header") = 2
    /\ call.file.header.toc_count = V32(vmprog_stream_max_toc_entries + 1)
    /\ ret = "invalid_toc_count"

-----------------------------------------------------------------------------
(* Properties of the scratch buffer (checked under SpecPkg)                *)

\* the bytes the scratch buffer of a call holds
ScratchBytes ==
    IF call.scratch.buffer = "nullptr" THEN V32(0) ELSE call.scratch.size

\* the non-empty entries of the called package that do not fit the scratch
\* buffer
TooLarge ==
    { i \in 1..Len(CalledToc) :
        /\ CalledToc[i].size # V32(0)
        /\ Gt32(CalledToc[i].size, ScratchBytes) }

\* a stream call without faults that got to its hash walk, where the first
\* non-empty entry that does not fit comes after entries that fit, are
\* readable and match
ReachesTooLarge ==
    /\ Returned
    /\ call.fn \in {"validate_vmprog_package_stream", "open"}
    /\ call.verify_hashes
    /\ call.failAt = 0
    /\ last.at \notin {"header", "toc"}
    /\ TooLarge # {}
    /\ \A i \in 1..Len(CalledToc) :
         (\A j \in TooLarge : i < j) =>
             \/ CalledToc[i].size = V32(0)
             \/ /\ Le32(XAdd(CalledToc[i].offset, CalledToc[i].size),
                        call.file.size)
                /\ StoredHashMatches(call.file, CalledToc[i])

\* C15: with hash verification requested, a payload that does not fit the
\* scratch buffer (a missing or zero-length buffer included) gives
\* invalid_payload_offset, and no read of the hash walk asks for more than
\* the scratch buffer holds
C15_ScratchTooSmall ==
    /\ ReachesTooLarge => ret = "invalid_payload_offset"
    /\ ( Returned /\ call.fn \in {"validate_vmprog_package_stream", "open"} )
       => \A i \in 1..Len(last.log) :
            (last.log[i].step = "hash" /\ last.log[i].op = "read") =>
                Le32(last.log[i].arg, ScratchBytes)

-----------------------------------------------------------------------------
(* Properties of the config validators (checked under SpecVal)             *)

\* (abi_min_major, abi_min_minor) < (abi_max_major, abi_max_minor)
AbiMinBelowMax(config) ==
    \/ config.abi_min_major < config.abi_max_major
    \/ /\ config.abi_min_major = config.abi_max_major
       /\ config.abi_min_minor < config.abi_max_minor

\* C16: validate_vmprog_program_config_v1_0 returns invalid_abi_range
\* (for a config that passes the parameter count check before it) unless
\* abi_min < abi_max strictly and neither major version is zero
C16_AbiRangeStrict ==
    ( /\ Returned
      /\ call.fn = "program_config"
      /\ call.config.parameter_count <= num_parameters
      /\ ~( /\ AbiMinBelowMax(call.config)
            /\ call.config.abi_min_major # 0
            /\ call.config.abi_max_major # 0 ) )
    => ret = "invalid_abi_range"

\* C17: a parameter config accepted by
\* validate_vmprog_parameter_config_v1_0 has min <= initial <= max,
\* display_min <= display_max, display_float_digits in 0..6,
\* value_label_count in 0..16 and terminated name, suffix and used value
\* labels
C17_ParameterConfigRanges ==
    ( /\ Returned
      /\ call.fn = "parameter_config"
      /\ ret = "ok" )
    => /\ call.param.min_value <= call.param.initial_value
       /\ call.param.initial_value <= call.param.max_value
       /\ call.param.display_min_value <= call.param.display_max_value
       /\ call.param.display_float_digits \in 0..6
       /\ call.param.value_label_count \in 0..max_value_labels
       /\ is_string_terminated(call.param.name_label)
       /\ is_string_terminated(call.param.suffix_label)
       /\ \A i \in 1..call.param.value_label_count :
            is_string_terminated(call.param.value_labels[i])

\* C18: a program config accepted by validate_vmprog_program_config_v1_0
\* has only zero bytes in the parameter entries from parameter_count on
C18_UnusedParametersZeroed ==
    ( /\ Returned
      /\ call.fn = "program_config"
      /\ ret = "ok" )
    => \A i \in 1..num_parameters :
         i > call.config.parameter_count =>
             call.config.parameters[i] = zero_parameter_config

\* C19: a program config accepted by validate_vmprog_program_config_v1_0
\* has a terminator in each of its seven identity strings and a non-empty
\* program_id and program_name
C19_IdentityStringsTerminated ==
    ( /\ Returned
      /\ call.fn = "program_config"
      /\ ret = "ok" )
    => /\ is_string_terminated(call.config.program_id)
       /\ is_string_terminated(call.config.program_name)
       /\ is_string_terminated(call.config.author)
       /\ is_string_terminated(call.config.license)
       /\ is_string_terminated(call.config.category)
       /\ is_string_terminated(call.config.description)
       /\ is_string_terminated(call.config.url)
       /\ call.config.program_id[1] # 0
       /\ call.config.program_name[1] # 0

-----------------------------------------------------------------------------
(* Display strings (vmprog_parameter_utils.hpp)                            *)
(* A character is its code (0 is the terminator); a string written into a *)
(* buffer is the sequence of characters stored at indices 0, 1, 2, ... in  *)
(* the order of the stores, so the k-th element is the store at index k-1. *)

\* the character of a decimal digit: '0' + d
DigitChar(d) == 48 + d

\* C's integer division by a positive b, which truncates towards zero (for a
\* negative a the quotient rounded up, written so that INT32_MIN is not negated)
TruncDiv(a, b) == IF a >= 0 THEN a \div b ELSE (a + b - 1) \div b

Shr(t, n) == t \div (2 ^ n)

Shl(t, n) == t * (2 ^ n)

\* the digits of value, least significant first, as the while loop stores them
RECURSIVE ReversedDigits(_, _)
ReversedDigits(temp, room) ==
    IF temp > 0 /\ room > 0
    THEN <<DigitChar(temp % 10)>> \o ReversedDigits(temp \div 10, room - 1)
    ELSE <<>>

Reverse(s) == [i \in 1..Len(s) |-> s[Len(s) + 1 - i]]

\* the characters left in buffer before the terminator; their number is the
\* function's result
uint32_to_string(value, buffer_size) ==
    IF buffer_size < 2 THEN <<>>
    ELSE IF value = 0 THEN <<DigitChar(0)>>
    ELSE Reverse(ReversedDigits(value, buffer_size - 1))

\* the characters of src before its first terminator
RECURSIVE UpToTerminator(_)
UpToTerminator(src) ==
    IF src = <<>> \/ Head(src) = 0 THEN <<>>
    ELSE <<Head(src)>> \o UpToTerminator(Tail(src))

Prefix(s, n) == SubSeq(s, 1, IF n < Len(s) THEN n ELSE Len(s))

\* the stores of fast_strcpy into dst, the terminator included
fast_strcpy(src, max_len) ==
    IF max_len = 0 THEN <<>>
    ELSE Prefix(UpToTerminator(src), max_len - 1) \o <<0>>

\* a clamp that forgets the upper limit
clamp_u16_no_upper_limit(value, min_val, max_val) ==
    IF value < min_val THEN min_val ELSE value

clamp_u16(value, min_val, max_val) ==
    IF value < min_val THEN min_val
    ELSE IF value > max_val THEN max_val ELSE value

\* the 36 values of vmprog_parameter_control_mode_v1_0
ControlModes == (0..35)

\* C's a % b on int32_t: the remainder of the division that truncates
CRem(a, b) == a - b * TruncDiv(a, b)

\* a polar mode that clamps its input instead of wrapping it
wrapped_clamping(value) == clamp_u16(value, 0, 1023)

\* "wrapped = value % 1024; if (wrapped < 0) wrapped += 1024"
wrapped(value) ==
    IF CRem(value, 1024) < 0 THEN CRem(value, 1024) + 1024
    ELSE CRem(value, 1024)

\* t squared scaled by a shift (a division by 1024) instead of by 1023
Pow2_by_shift(t) == Shr(t * t, 10)

\* (t * t) / 1023 and the further powers the easing modes build from it
Pow2(t) == (t * t) \div 1023

Pow3(t) == (Pow2(t) * t) \div 1023

Pow4(t) == (Pow2(t) * Pow2(t)) \div 1023

Pow5(t) == (Pow4(t) * t) \div 1023

apply_parameter_control_curve(value, mode) ==
    IF mode >= 12 /\ mode <= 17
    THEN LET Polar(t) ==
                 CASE mode = 12 -> Shr(t, 2)
                   [] mode = 13 -> Shr(t, 1)
                   [] mode = 14 -> t
                   [] mode = 15 -> Shl(t, 1) % 1024
                   [] mode = 16 -> Shl(t, 2) % 1024
                   [] mode = 17 -> Shl(t, 3) % 1024
         IN  Polar(wrapped(value))
    ELSE LET Curve(t, temp) ==
                 CASE mode = 0 -> t
                   [] mode = 1 -> Shr(t, 1)
                   [] mode = 2 -> Shr(t, 2)
                   [] mode = 3 -> clamp_u16(Shl(t, 1), 0, 1023)
                   [] mode = 4 -> IF t >= 512 THEN 1023 ELSE 0
                   [] mode = 5 -> Shr(t, 8) * 341
                   [] mode = 6 -> Shr(t, 7) * 146
                   [] mode = 7 -> Shr(t, 6) * 68
                   [] mode = 8 -> Shr(t, 5) * 33
                   [] mode = 9 -> Shl(Shr(t, 4), 4)
                   [] mode = 10 -> Shl(Shr(t, 3), 3)
                   [] mode = 11 -> Shl(Shr(t, 2), 2)
                   [] mode \in {18, 21, 24} -> Pow2(t)
                   [] mode \in {19, 22, 25} -> 1023 - Pow2(temp)
                   [] mode = 20 -> IF t < 512 THEN Shr(t * t, 9)
                                   ELSE 1023 - Shr(temp * temp, 9)
                   [] mode = 23 -> IF t < 512 THEN Shr(t * t, 11)
                                   ELSE 1023 - Shr(temp * temp, 11)
                   [] mode = 26 -> IF t < 512 THEN Pow3(t)
                                   ELSE 1023 - Pow3(temp)
                   [] mode = 27 -> Pow5(t)
                   [] mode = 28 -> 1023 - Pow5(temp)
                   [] mode = 29 ->
                          IF t < 512
                          THEN Shl(Pow4(t) * t, 4) \div 1046529
                          ELSE 1023 - (Shl(Pow4(temp) * temp, 4) \div 1046529)
                   [] mode = 30 -> Pow4(t)
                   [] mode = 31 -> 1023 - Pow4(temp)
                   [] mode = 32 ->
                          IF t < 512
                          THEN Shl(Pow2(t) * Pow2(t), 3) \div 1046529
                          ELSE 1023 - (Shl(Pow2(temp) * Pow2(temp), 3)
                                           \div 1046529)
                   [] mode = 33 -> IF t = 0 THEN 0 ELSE (Pow3(t) * t) \div 1023
                   [] mode = 34 -> IF t = 1023 THEN 1023
                                   ELSE 1023 - ((Pow3(temp) * temp) \div 1023)
                   [] mode = 35 ->
                          IF t = 0 THEN 0
                          ELSE IF t = 1023 THEN 1023
                          ELSE IF t < 512 THEN Shr(Pow3(t) * t, 11)
                          ELSE 1023 - Shr(Pow3(temp) * temp, 11)
                   [] OTHER -> t
         IN  Curve(clamp_u16(value, 0, 1023), 1023 - clamp_u16(value, 0, 1023))

vmprog_parameter_display_divisor_lut ==
    <<1, 10, 100, 1000, 10000, 100000, 1000000>>

\* "for (...; i < n && pos < out_str_size - 1; ...) out_str[pos++] = chars[i]":
\* out followed by the characters of chars for which there is room
Put(out, chars, out_str_size) ==
    out \o Prefix(chars, IF Len(out) < out_str_size - 1
                         THEN out_str_size - 1 - Len(out) ELSE 0)

Zeros(n) == [i \in 1..(IF n > 0 THEN n ELSE 0) |-> DigitChar(0)]

\* the stores into out_str, in order, the first at index 0
generate_parameter_value_display_string(value, config, out_str_size) ==
    IF out_str_size = 0 THEN <<>>
    ELSE IF config.value_label_count >= 2
    THEN fast_strcpy(
             config.value_labels[
                 TruncDiv(clamp_u16(value, 0, 1023)
                              * (config.value_label_count - 1), 1023) + 1],
             out_str_size)
    ELSE LET Format(scaled_int) ==
                 LET Digits(abs_value, divisor) ==
                         LET sign == IF scaled_int < 0 THEN <<45>> ELSE <<>>
                             int == Put(sign,
                                        uint32_to_string(abs_value \div divisor, 12),
                                        out_str_size)
                             frac == uint32_to_string(abs_value % divisor, 12)
                             point ==
                                 IF config.display_float_digits > 0
                                    /\ Len(int) < out_str_size - 1
                                 THEN Put(Put(int \o <<46>>,
                                              Zeros(config.display_float_digits
                                                        - Len(frac)),
                                              out_str_size),
                                          frac, out_str_size)
                                 ELSE int
                             suffix ==
                                 IF config.suffix_label[1] # 0
                                    /\ Len(point) < out_str_size - 1
                                 THEN Put(point,
                                          UpToTerminator(config.suffix_label),
                                          out_str_size)
                                 ELSE point
                         IN  suffix \o <<0>>
                 IN  Digits(IF scaled_int < 0 THEN -scaled_int ELSE scaled_int,
                            IF config.display_float_digits < 7
                            THEN vmprog_parameter_display_divisor_lut[
                                     config.display_float_digits + 1]
                            ELSE 1000000)
         IN  Format(config.display_min_value
                        + TruncDiv(apply_parameter_control_curve(
                                       value, config.control_mode)
                                     * (config.display_max_value
                                          - config.display_min_value), 1023))

-----------------------------------------------------------------------------
(* SpecDisplay: one call of generate_parameter_value_display_string        *)

\* the sizes of the caller's buffer
MaxOutStrSize == 9

\* raw values below, inside and above the 10-bit range
DisplayValues == {-1, 0, 1, 511, 512, 1023, 1024, 2000}

\* a string in an array of n characters, zero filled
Padded(s, n) == [i \in 1..n |-> IF i <= Len(s) THEN s[i] ELSE 0]

\* "Off", "On", "Automatic"
DisplayLabels ==
    [i \in 1..16 |->
        Padded(CASE i = 1 -> <<79, 102, 102>>
                 [] i = 2 -> <<79, 110>>
                 [] i = 3 -> <<65, 117, 116, 111, 109, 97, 116, 105, 99>>
                 [] OTHER -> <<>>, 32)]

\* no suffix, "%", "Volt" (all four characters used, no terminator)
DisplaySuffixes ==
    {Padded(<<>>, 4), Padded(<<37>>, 4), <<86, 111, 108, 116>>}

DisplayRanges ==
    {<<0, 100>>, <<-5, 100>>, <<-100, 100>>, <<0, 30000>>, <<-32768, 32767>>,
     <<100, -100>>}

DisplayConfig(mode, range, digits, labels, suffix) ==
    [control_mode |-> mode, display_min_value |-> range[1],
     display_max_value |-> range[2], display_float_digits |-> digits,
     value_label_count |-> labels, value_labels |-> DisplayLabels,
     suffix_label |-> suffix]

InitDisplay ==
    /\ \E value \in DisplayValues, mode \in {0, 3, 5, 14},
          range \in DisplayRanges, digits \in {0, 2, 6, 7},
          labels \in {0, 2, 3}, suffix \in DisplaySuffixes,
          size \in 1..MaxOutStrSize :
            call = [fn |-> "generate_parameter_value_display_string",
                    value |-> value,
                    config |-> DisplayConfig(mode, range, digits, labels, suffix),
                    out_str_size |-> size]
    /\ ret = "pending"
    /\ ReaderInit
    /\ ControllerIdle
    /\ last = NoLast

GenerateDisplayString ==
    /\ ret = "pending"
    /\ call.fn = "generate_parameter_value_display_string"
    /\ ret' = "void"
    /\ last' = [op |-> call.fn, log |-> <<>>, at |-> "none",
                open_result |-> "none",
                out_str |-> generate_parameter_value_display_string(
                                call.value, call.config, call.out_str_size)]
    /\ UNCHANGED <<call, readerVars, controllerVars>>

NextDisplay == GenerateDisplayString

SpecDisplay == InitDisplay /\ [][NextDisplay]_vars

-----------------------------------------------------------------------------
(* Properties of the display string (checked under SpecDisplay)            *)

Generated == ret = "void" /\ last.op = "generate_parameter_value_display_string"

\* the text the function would produce in a buffer with room for all of it
FullText == generate_parameter_value_display_string(call.value, call.config, 64)

\* C20: for every input, every parameter config and every out_str_size >= 1,
\* generate_parameter_value_display_string stores only at indices in
\* [0, out_str_size) and leaves a terminator at an index below out_str_size;
\* when the full text does not fit, the output is the full text cut short and
\* the terminator is at the last writable index, out_str_size - 1.
C20_DisplayStringInBounds ==
    Generated /\ call.out_str_size >= 1 =>
        /\ Len(last.out_str) <= call.out_str_size
        /\ \E i \in 1..call.out_str_size :
               i <= Len(last.out_str) /\ last.out_str[i] = 0
        /\ Len(FullText) > call.out_str_size =>
               /\ Len(last.out_str) = call.out_str_size
               /\ last.out_str[call.out_str_size] = 0
               /\ SubSeq(last.out_str, 1, call.out_str_size - 1)
                      = SubSeq(FullText, 1, call.out_str_size - 1)

-----------------------------------------------------------------------------
(* SpecCurve: one call of apply_parameter_control_curve or of              *)
(* apply_parameter_control_curve_and_scaling                               *)

INT32_MAX == 2147483647

INT32_MIN == -INT32_MAX - 1

\* how far the raw values around the 10-bit range extend
MaxCurveOvershoot == 1100

\* raw values: the 10-bit range with a margin of more than one wrap on both
\* sides, and the ends of int32_t
CurveInputs ==
    ((-MaxCurveOvershoot)..(1023 + MaxCurveOvershoot))
        \cup {INT32_MIN + k : k \in 0..2}
        \cup {INT32_MAX - 1024 - k : k \in 0..2}
        \cup {INT32_MAX - k : k \in 0..2}

\* a / d for a uint32_t a and a divisor d below 2^16
Div32(a, d) == <<a[1] \div d, ((a[1] % d) * Half + a[2]) \div d>>

\* the int difference of two uint16_t, converted to uint32_t
Diff32(max_value, min_value) ==
    IF max_value >= min_value THEN V32(max_value - min_value)
    ELSE <<Half - 1, Half + (max_value - min_value)>>

\* scaling that divides by 1024 instead of 1023
apply_parameter_control_curve_and_scaling_by_1024(value, mode) ==
    Add32(V32(mode.min_value),
          Div32(Mul32(Diff32(mode.max_value, mode.min_value),
                      apply_parameter_control_curve(value, mode.control_mode)),
                1024))[2]

\* the low 16 bits of the uint32_t scaled
apply_parameter_control_curve_and_scaling(value, mode) ==
    Add32(V32(mode.min_value),
          Div32(Mul32(Diff32(mode.max_value, mode.min_value),
                      apply_parameter_control_curve(value, mode.control_mode)),
                1023))[2]

ScalingInputs == {-1, 0, 1, 300, 511, 512, 1022, 1023, 1024}

\* <<min_value, max_value>>: ascending, degenerate, full and inverted ranges
ScalingRanges ==
    {<<0, 1023>>, <<0, 65535>>, <<100, 500>>, <<1, 1000>>, <<7, 7>>, <<0, 0>>,
     <<500, 100>>, <<65535, 0>>}

InitCurve ==
    /\ \/ \E value \in CurveInputs, mode \in ControlModes :
            call = [fn |-> "apply_parameter_control_curve",
                    value |-> value, mode |-> mode]
       \/ \E value \in ScalingInputs, mode \in ControlModes,
             range \in ScalingRanges :
            call = [fn |-> "apply_parameter_control_curve_and_scaling",
                    value |-> value,
                    config |-> [control_mode |-> mode, min_value |-> range[1],
                                max_value |-> range[2]]]
    /\ ret = "pending"
    /\ ReaderInit
    /\ ControllerIdle
    /\ last = NoLast

CurveReturned(result) ==
    /\ ret' = "returned"
    /\ last' = [op |-> call.fn, log |-> <<>>, at |-> "none",
                open_result |-> "none", result |-> result]
    /\ UNCHANGED <<call, readerVars, controllerVars>>

ApplyCurve ==
    /\ ret = "pending" /\ call.fn = "apply_parameter_control_curve"
    /\ CurveReturned(apply_parameter_control_curve(call.value, call.mode))

ApplyCurveAndScaling ==
    /\ ret = "pending" /\ call.fn = "apply_parameter_control_curve_and_scaling"
    /\ CurveReturned(apply_parameter_control_curve_and_scaling(call.value,
                                                          call.config))

NextCurve == ApplyCurve \/ ApplyCurveAndScaling

SpecCurve == InitCurve /\ [][NextCurve]_vars

-----------------------------------------------------------------------------
(* Properties of the control curve (checked under SpecCurve)               *)

Curved == ret = "returned" /\ last.op = "apply_parameter_control_curve"

\* C21: for every mode in 0..35 and every signed 32-bit input x (INT32_MIN
\* and INT32_MAX included), apply_parameter_control_curve(x, mode) is in
\* [0, 1023].
C21_CurveRange ==
    Curved => last.result >= 0 /\ last.result <= 1023

C21_Witness ==
    /\ Curved
    /\ call.value = INT32_MIN
    /\ call.mode = 35
    /\ last.result = 0

\* the width of one step of a discrete-step mode (steps_4 .. steps_256)
StepWidth(mode) == 1024 \div (2 ^ (mode - 3))

StepModes == 5..11

\* C22: for each of the 36 modes curve(0, mode) = 0 and
\* curve(1023, mode) = 1023, with only these exceptions: in the discrete-step
\* modes curve(1023, mode) may fall short of 1023 by less than one step, and
\* in boolean mode every input in the lower half maps to 0.
C22_CurveBoundaries ==
    /\ Curved /\ call.value = 0 => last.result = 0
    /\ Curved /\ call.value = 1023 =>
           IF call.mode \in StepModes
           THEN last.result <= 1023
                    /\ 1023 - last.result < StepWidth(call.mode)
           ELSE last.result = 1023
    /\ Curved /\ call.mode = 4 /\ call.value >= 0 /\ call.value < 512 =>
           last.result = 0

\* C22 as amended: the modes that scale or wrap the input are exceptions as
\* well: at 1023 linear_half and polar_degs_180 give 511, linear_quarter and
\* polar_degs_90 give 255, and polar_degs_720, polar_degs_1440 and
\* polar_degs_2880 give 1022, 1020 and 1016.
C22_CurveBoundariesOfUnscaledModes ==
    /\ Curved /\ call.value = 0 => last.result = 0
    /\ Curved /\ call.value = 1023 =>
           CASE call.mode \in StepModes ->
                    last.result <= 1023
                        /\ 1023 - last.result < StepWidth(call.mode)
             [] call.mode \in {1, 13} -> last.result = 511
             [] call.mode \in {2, 12} -> last.result = 255
             [] call.mode = 15 -> last.result = 1022
             [] call.mode = 16 -> last.result = 1020
             [] call.mode = 17 -> last.result = 1016
             [] OTHER -> last.result = 1023
    /\ Curved /\ call.mode = 4 /\ call.value >= 0 /\ call.value < 512 =>
           last.result = 0

C22_Witness ==
    /\ Curved
    /\ call.value = 1023
    /\ call.mode = 11
    /\ last.result = 1020

PolarModes == 12..17

\* ((x mod 1024) + 1024) mod 1024 with the Euclidean modulo
EuclideanWrap(x) == ((x % 1024) + 1024) % 1024

\* C23: polar modes wrap instead of clamping: for every x for which x + 1024
\* is representable, curve(x, polar_degs_360) = curve(x + 1024,
\* polar_degs_360); for every x, negative included, each of the six polar
\* modes computes its result from t = ((x mod 1024) + 1024) mod 1024, and
\* curve(x, polar_degs_360) is that t.
C23_PolarWrap ==
    /\ Curved /\ call.mode = 14 /\ call.value <= INT32_MAX - 1024 =>
           last.result
               = apply_parameter_control_curve(call.value + 1024, 14)
    /\ Curved /\ call.mode \in PolarModes =>
           last.result
               = apply_parameter_control_curve(EuclideanWrap(call.value),
                                               call.mode)
    /\ Curved /\ call.mode = 14 => last.result = EuclideanWrap(call.value)

C23_Witness ==
    /\ Curved
    /\ call.mode = 14
    /\ call.value = -1
    /\ last.result = 1023

Scaled == ret = "returned" /\ last.op = "apply_parameter_control_curve_and_scaling"

ScaledCurve == apply_parameter_control_curve(call.value, call.config.control_mode)

\* min_value + (curved * (max_value - min_value)) / 1023 in exact integers
ExactScaling(curved, min_value, max_value) ==
    min_value + TruncDiv(curved * (max_value - min_value), 1023)

-----------------------------------------------------------------------------
(* The register controller (videomancer_fpga_controller.hpp)               *)
(* A controller is [shadow, pad, fpga]: the shadow registers by address,   *)
(* the byte after m_shadow_video_timing_id, and the videomancer_fpga it    *)
(* talks to. m_shadow_video_timing_id is a uint8_t that write_register     *)
(* reads and writes through a uint16_t pointer: the access covers the byte *)
(* that follows it in the object (little-endian: the high byte), which the *)
(* constructor leaves indeterminate.                                       *)

Controller == [shadow |-> m_shadow, pad |-> tail_pad, fpga |-> m_fpga]

\* videomancer_fpga::assert_chip_select_spi, with the call recorded
assert_chip_select_spi(fpga, assert) ==
    [fpga EXCEPT
        !.cs_state_ = assert,
        !.transactions_ =
            Append(@, [ev |-> "cs", tx_data |-> <<>>, cs_asserted |-> assert,
                       transferred |-> 0])]

\* the register address and the data a 2-byte frame carries
FrameAddress(tx_data) == (tx_data[1] \div 4) % 32

FrameData(tx_data) == (tx_data[1] % 4) * 256 + tx_data[2]

\* videomancer_fpga::transfer_spi returning transferred: the FPGA register
\* takes the data of a frame that arrives whole
transfer_spi(fpga, tx_buffer, size, transferred) ==
    [fpga EXCEPT
        !.transactions_ =
            Append(@, [ev |-> "transfer", tx_data |-> tx_buffer,
                       cs_asserted |-> fpga.cs_state_,
                       transferred |-> transferred]),
        !.reg = IF transferred = size /\ FrameAddress(tx_buffer) \in DOMAIN @
                THEN [@ EXCEPT ![FrameAddress(tx_buffer)] = FrameData(tx_buffer)]
                ELSE @,
        !.written = IF transferred = size THEN @ \cup {FrameAddress(tx_buffer)}
                    ELSE @]

\* *shadow_reg as a uint16_t
ShadowWord(c, address) ==
    IF address = 8 THEN c.shadow[8] + 256 * c.pad ELSE c.shadow[address]

\* *shadow_reg = data
StoreShadowWord(c, address, data) ==
    IF address = 8
    THEN [c EXCEPT !.shadow[8] = data % 256, !.pad = data \div 256]
    ELSE [c EXCEPT !.shadow[address] = data]

\* a write_register that leaves chip select asserted when the transfer fails
write_register_select_held_on_failure(c, address, data, transferred) ==
    IF address \in RegisterAddresses /\ ShadowWord(c, address) = data
    THEN [c |-> c, success |-> TRUE]
    ELSE LET tx_buffer ==
                 <<((address % 32) * 1024 + (data % 1024)) \div 256,
                   ((address % 32) * 1024 + (data % 1024)) % 256>>
             Sent(fpga) ==
                 IF transferred = 2 THEN assert_chip_select_spi(fpga, FALSE)
                 ELSE fpga
             Done(d) ==
                 [c |-> IF transferred = 2 /\ address \in RegisterAddresses
                        THEN StoreShadowWord(d, address, data) ELSE d,
                  success |-> transferred = 2]
         IN  Done([c EXCEPT !.fpga =
                      Sent(transfer_spi(assert_chip_select_spi(c.fpga, TRUE),
                                        tx_buffer, 2, transferred))])

\* a write_register that takes the shadow value before the transfer is known
\* to have succeeded
write_register_shadow_first(c, address, data, transferred) ==
    IF address \in RegisterAddresses /\ ShadowWord(c, address) = data
    THEN [c |-> c, success |-> TRUE]
    ELSE LET tx_buffer ==
                 <<((address % 32) * 1024 + (data % 1024)) \div 256,
                   ((address % 32) * 1024 + (data % 1024)) % 256>>
             Done(d) ==
                 [c |-> IF address \in RegisterAddresses
                        THEN StoreShadowWord(d, address, data) ELSE d,
                  success |-> transferred = 2]
         IN  Done([c EXCEPT !.fpga =
                      assert_chip_select_spi(
                          transfer_spi(assert_chip_select_spi(c.fpga, TRUE),
                                       tx_buffer, 2, transferred),
                          FALSE)])

\* transferred is what transfer_spi returns if this call reaches it
write_register(c, address, data, transferred) ==
    IF address \in RegisterAddresses /\ ShadowWord(c, address) = data
    THEN [c |-> c, success |-> TRUE]
    ELSE LET tx_buffer ==
                 <<((address % 32) * 1024 + (data % 1024)) \div 256,
                   ((address % 32) * 1024 + (data % 1024)) % 256>>
             Done(d) ==
                 [c |-> IF transferred = 2 /\ address \in RegisterAddresses
                        THEN StoreShadowWord(d, address, data) ELSE d,
                  success |-> transferred = 2]
         IN  Done([c EXCEPT !.fpga =
                      assert_chip_select_spi(
                          transfer_spi(assert_chip_select_spi(c.fpga, TRUE),
                                       tx_buffer, 2, transferred),
                          FALSE)])

\* set_rotary_pot_1 .. set_rotary_pot_6; plan gives, by register address, what
\* transfer_spi returns
set_rotary_pot(c, n, value, plan) ==
    write_register(c, n - 1, value % 1024, plan[n - 1])

set_linear_pot_12(c, value, plan) ==
    write_register(c, 7, value % 1024, plan[7])

set_toggle_switches(c, switches, plan) ==
    write_register(c, 6, switches % 32, plan[6])

\* switches |= (1 << bit) and switches &= ~(1 << bit)
WithBit(switches, bit, state) ==
    switches - ((switches \div (2 ^ bit)) % 2) * (2 ^ bit)
        + (IF state THEN 2 ^ bit ELSE 0)

\* set_toggle_switch_7 .. set_toggle_switch_11
set_toggle_switch(c, n, state, plan) ==
    write_register(c, 6, WithBit(c.shadow[6], n - 7, state) % 32, plan[6])

\* set_video_timing_id, and set_video_timing with the enumerator's value
set_video_timing_id(c, timing_id, plan) ==
    write_register(c, 8, timing_id % 16, plan[8])

\* "success &= " over the results of two steps
AndThen(first, second) ==
    [c |-> second.c, success |-> first.success /\ second.success]

RECURSIVE SetRotaryPotsFrom(_, _, _, _)
SetRotaryPotsFrom(c, n, values, plan) ==
    IF n > 6 THEN [c |-> c, success |-> TRUE]
    ELSE LET Rest(r) ==
                 AndThen(r, SetRotaryPotsFrom(r.c, n + 1, values, plan))
         IN  Rest(set_rotary_pot(c, n, values[n], plan))

set_all_rotary_pots(c, values, plan) == SetRotaryPotsFrom(c, 1, values, plan)

set_all_controls(c, rotary_pots, linear_pot, switches, timing_id, plan) ==
    LET Timing(r) == AndThen(r, set_video_timing_id(r.c, timing_id, plan))
        Switches(r) ==
            Timing(AndThen(r, set_toggle_switches(r.c, switches, plan)))
        Linear(r) ==
            Switches(AndThen(r, set_linear_pot_12(r.c, linear_pot, plan)))
    IN  Linear(set_all_rotary_pots(c, rotary_pots, plan))

reset_shadow_registers(c) ==
    [c EXCEPT !.shadow = [a \in RegisterAddresses |-> 0]]

-----------------------------------------------------------------------------
(* SpecFpga: a controller under a sequence of calls, every transfer free   *)
(* to fail                                                                 *)

\* the number of calls in a run
MaxFpgaCalls == 2

\* what the byte after m_shadow_video_timing_id may hold after construction
TailPads == {0, 165}

\* uint16_t arguments inside and beyond the 10 bits of a register
PotValues == {0, 5, 1029}

SwitchValues == {0, 1, 33}

TimingValues == {0, 3, 19}

Always(n) == [a \in RegisterAddresses |-> n]

\* what the FPGA registers may hold when the controller is constructed
PowerOnRegisters == {Always(0), Always(9)}

\* what transfer_spi may return for a 2-byte transfer: a short count, or 2
Transferred == {1, 2}

\* every transfer succeeds; every transfer fails; only some transfers fail
SpiPlans ==
    {Always(2), Always(0), [Always(2) EXCEPT ![1] = 1, ![7] = 0]}

PotArrays == {<<0, 0, 0, 0, 0, 0>>, <<5, 5, 0, 1029, 0, 5>>}

\* set_rotary_pot_1 .. set_rotary_pot_6, set_toggle_switch_7 .. _11
RotaryPots == 1..6

ToggleSwitches == 7..11

InitFpga ==
    /\ call = [fn |-> "none"]
    /\ ret = "none"
    /\ ReaderInit
    /\ last = [op |-> "none", log |-> <<>>, at |-> "none",
               open_result |-> "none", calls |-> 0, resets |-> 0]
    /\ m_shadow = [a \in RegisterAddresses |-> 0]
    /\ tail_pad \in TailPads
    /\ \E reg \in PowerOnRegisters : m_fpga = NewFpga(reg)

\* the caller looks at the transfers of one call at a time
Fresh == [Controller EXCEPT !.fpga.transactions_ = <<>>]

FpgaCalled(c, r, result) ==
    /\ last.calls < MaxFpgaCalls
    /\ call' = c
    /\ ret' = result
    /\ m_shadow' = r.shadow
    /\ tail_pad' = r.pad
    /\ m_fpga' = r.fpga
    /\ last' = [last EXCEPT !.op = c.fn, !.calls = @ + 1,
                            !.resets = @ + (IF c.fn = "reset_shadow_registers"
                                            THEN 1 ELSE 0)]
    /\ UNCHANGED readerVars

Bool(b) == IF b THEN "true" ELSE "false"

SetRotaryPot ==
    \E n \in RotaryPots, value \in PotValues, t \in Transferred :
        LET Done(r) ==
                FpgaCalled([fn |-> "set_rotary_pot", address |-> n - 1,
                            value |-> value, masked |-> value % 1024],
                           r.c, Bool(r.success))
        IN  Done(set_rotary_pot(Fresh, n, value, Always(t)))

SetLinearPot12 ==
    \E value \in PotValues, t \in Transferred :
        LET Done(r) ==
                FpgaCalled([fn |-> "set_linear_pot_12", address |-> 7,
                            value |-> value, masked |-> value % 1024],
                           r.c, Bool(r.success))
        IN  Done(set_linear_pot_12(Fresh, value, Always(t)))

SetToggleSwitches ==
    \E switches \in SwitchValues, t \in Transferred :
        LET Done(r) ==
                FpgaCalled([fn |-> "set_toggle_switches", address |-> 6,
                            value |-> switches, masked |-> switches % 32],
                           r.c, Bool(r.success))
        IN  Done(set_toggle_switches(Fresh, switches, Always(t)))

SetToggleSwitch ==
    \E n \in ToggleSwitches, state \in BOOLEAN, t \in Transferred :
        LET Done(r) ==
                FpgaCalled([fn |-> "set_toggle_switch", address |-> 6,
                            value |-> state,
                            masked |-> WithBit(m_shadow[6], n - 7, state) % 32],
                           r.c, Bool(r.success))
        IN  Done(set_toggle_switch(Fresh, n, state, Always(t)))

SetVideoTimingId ==
    \E timing_id \in TimingValues, t \in Transferred :
        LET Done(r) ==
                FpgaCalled([fn |-> "set_video_timing_id", address |-> 8,
                            value |-> timing_id, masked |-> timing_id % 16],
                           r.c, Bool(r.success))
        IN  Done(set_video_timing_id(Fresh, timing_id, Always(t)))

SetAllRotaryPots ==
    \E values \in PotArrays, plan \in SpiPlans :
        LET Done(r) ==
                FpgaCalled([fn |-> "set_all_rotary_pots", values |-> values,
                            plan |-> plan],
                           r.c, Bool(r.success))
        IN  Done(set_all_rotary_pots(Fresh, values, plan))

SetAllControls ==
    \E values \in PotArrays, others \in {<<0, 0, 0>>, <<1029, 33, 19>>},
       plan \in SpiPlans :
        LET Done(r) ==
                FpgaCalled([fn |-> "set_all_controls", values |-> values,
                            linear_pot |-> others[1], switches |-> others[2],
                            timing_id |-> others[3], plan |-> plan],
                           r.c, Bool(r.success))
        IN  Done(set_all_controls(Fresh, values, others[1], others[2],
                                  others[3], plan))

ResetShadowRegisters ==
    FpgaCalled([fn |-> "reset_shadow_registers"],
               reset_shadow_registers(Fresh), "void")

NextFpga ==
    \/ SetRotaryPot
    \/ SetLinearPot12
    \/ SetToggleSwitches
    \/ SetToggleSwitch
    \/ SetVideoTimingId
    \/ SetAllRotaryPots
    \/ SetAllControls
    \/ ResetShadowRegisters

SpecFpga == InitFpga /\ [][NextFpga]_vars

-----------------------------------------------------------------------------
(* Properties of the register controller (checked under SpecFpga)          *)

SingleSetters ==
    {"set_rotary_pot", "set_linear_pot_12", "set_toggle_switches",
     "set_toggle_switch", "set_video_timing_id"}

Setters == SingleSetters \cup {"set_all_rotary_pots", "set_all_controls"}

\* the SPI transfers among the recorded calls of a videomancer_fpga
Transfers(fpga) == SelectSeq(fpga.transactions_, LAMBDA e : e.ev = "transfer")

\* a step of the run is one call of the controller
CallStep == last'.calls = last.calls + 1

\* the registers a bulk call is to change: those whose masked new value
\* differs from the shadow value at the time of the call
ChangedPots(values) == {n \in 1..6 : values[n] % 1024 # m_shadow[n - 1]}

ChangedOthers(c) ==
    {a \in {6, 7, 8} :
        CASE a = 7 -> c.linear_pot % 1024 # m_shadow[7]
          [] a = 6 -> c.switches % 32 # m_shadow[6]
          [] a = 8 -> c.timing_id % 16 # m_shadow[8]}

\* C25: for every register setter, in any reachable state: a call whose
\* masked value equals the register's current shadow value performs no SPI
\* transfer and no chip-select change and returns true; a call whose masked
\* value differs performs exactly one 2-byte SPI transfer; a bulk update
\* (set_all_rotary_pots, set_all_controls) issues exactly one transfer per
\* register whose value changes.
C25_WriteOnlyOnChange ==
    [][CallStep =>
        /\ call'.fn \in SingleSetters =>
               IF call'.masked = m_shadow[call'.address]
               THEN m_fpga'.transactions_ = <<>> /\ ret' = "true"
               ELSE /\ Len(Transfers(m_fpga')) = 1
                    /\ Len(Transfers(m_fpga')[1].tx_data) = 2
        /\ call'.fn = "set_all_rotary_pots" =>
               Len(Transfers(m_fpga')) = Cardinality(ChangedPots(call'.values))
        /\ call'.fn = "set_all_controls" =>
               Len(Transfers(m_fpga'))
                   = Cardinality(ChangedPots(call'.values))
                       + Cardinality(ChangedOthers(call'))]_vars

\* a frame with this address and data was transferred whole in the last call
FrameTransferred(fpga, address, data) ==
    \E i \in 1..Len(fpga.transactions_) :
        /\ fpga.transactions_[i].ev = "transfer"
        /\ fpga.transactions_[i].transferred = 2
        /\ FrameAddress(fpga.transactions_[i].tx_data) = address
        /\ FrameData(fpga.transactions_[i].tx_data) = data

\* C26: reset_shadow_registers() sets every shadow register to 0 without any
\* SPI transfer or chip-select change, and a set call after the reset syncs
\* the hardware: for every value v (v = 0 included) and whatever the FPGA
\* register held before, after the reset followed by a set call with v that
\* returns true, a write frame carrying v has been transferred for that
\* register, so hardware register and shadow both hold v.
C26_SetAfterResetSyncs ==
    [][CallStep =>
        /\ call'.fn = "reset_shadow_registers" =>
               /\ m_shadow' = [a \in RegisterAddresses |-> 0]
               /\ m_fpga'.transactions_ = <<>>
               /\ m_fpga'.cs_state_ = m_fpga.cs_state_
        /\ last.op = "reset_shadow_registers"
              /\ call'.fn \in SingleSetters /\ ret' = "true" =>
               /\ FrameTransferred(m_fpga', call'.address, call'.masked)
               /\ m_fpga'.reg[call'.address] = call'.masked
               /\ m_shadow'[call'.address] = call'.masked]_vars

\* the recorded calls of the videomancer_fpga come in threes: chip select
\* asserted, one 2-byte transfer made while it is asserted, chip select
\* de-asserted
Bracketed(transactions_) ==
    /\ Len(transactions_) % 3 = 0
    /\ \A i \in 1..Len(transactions_) :
           CASE i % 3 = 1 -> /\ transactions_[i].ev = "cs"
                             /\ transactions_[i].cs_asserted
             [] i % 3 = 2 -> /\ transactions_[i].ev = "transfer"
                             /\ transactions_[i].cs_asserted
                             /\ Len(transactions_[i].tx_data) = 2
             [] i % 3 = 0 -> /\ transactions_[i].ev = "cs"
                             /\ ~transactions_[i].cs_asserted

\* C28: in every execution of a setter that transfers data, chip select is
\* asserted before transfer_spi is called and de-asserted after it returns,
\* whether the transfer succeeds or not: transfer_spi is only called while
\* chip select is asserted, each assertion brackets exactly one 2-byte
\* transfer, and chip select is de-asserted whenever a setter returns.
C28_ChipSelectBrackets ==
    call.fn \in Setters =>
        /\ Bracketed(m_fpga.transactions_)
        /\ ~m_fpga.cs_state_

\* a bulk setter has returned false after a failed and a successful transfer
C28_Witness ==
    /\ call.fn = "set_all_rotary_pots"
    /\ ret = "false"
    /\ \E i, j \in 1..Len(m_fpga.transactions_) :
           /\ m_fpga.transactions_[i].ev = "transfer"
           /\ m_fpga.transactions_[i].transferred = 2
           /\ m_fpga.transactions_[j].ev = "transfer"
           /\ m_fpga.transactions_[j].transferred # 2

\* a transfer of the last call returned a count other than 2
TransferFailed(fpga) ==
    \E i \in 1..Len(fpga.transactions_) :
        /\ fpga.transactions_[i].ev = "transfer"
        /\ fpga.transactions_[i].transferred # 2

\* a transfer for this register was attempted in the last call
Attempted(fpga, address) ==
    \E i \in 1..Len(fpga.transactions_) :
        /\ fpga.transactions_[i].ev = "transfer"
        /\ FrameAddress(fpga.transactions_[i].tx_data) = address

\* the registers a call may write
Targets(c) ==
    CASE c.fn \in SingleSetters -> {c.address}
      [] c.fn = "set_all_rotary_pots" -> 0..5
      [] OTHER -> RegisterAddresses

\* C29: after any sequence of setter calls with arbitrary SPI successes and
\* failures and no reset_shadow_registers call, each shadow register (each
\* getter) equals the masked data of the most recent successfully
\* transferred frame for its address, or 0 if there has been none; a failed
\* transfer makes the setter return false and leaves every shadow register
\* of a single setter unchanged; a bulk setter still attempts every remaining
\* register after a failure and returns true only if all writes succeeded;
\* a setter never changes the shadow value of any other register.
C29_ShadowFollowsTransfers ==
    [][CallStep /\ call'.fn \in Setters =>
        /\ last'.resets = 0 =>
               \A a \in RegisterAddresses :
                   m_shadow'[a] = IF a \in m_fpga'.written
                                  THEN m_fpga'.reg[a] ELSE 0
        /\ TransferFailed(m_fpga') => ret' = "false"
        /\ ret' = "true" => ~TransferFailed(m_fpga')
        /\ call'.fn \in SingleSetters /\ TransferFailed(m_fpga') =>
               m_shadow' = m_shadow
        /\ \A a \in RegisterAddresses :
               m_shadow'[a] # m_shadow[a] =>
                   /\ a \in Targets(call')
                   /\ FrameTransferred(m_fpga', a, m_shadow'[a])
        /\ call'.fn = "set_all_rotary_pots" =>
               \A n \in ChangedPots(call'.values) : Attempted(m_fpga', n - 1)
        /\ call'.fn = "set_all_controls" =>
               /\ \A n \in ChangedPots(call'.values) :
                      Attempted(m_fpga', n - 1)
               /\ \A a \in ChangedOthers(call') : Attempted(m_fpga', a)]_vars

\* a failed write after a successful one: the shadow keeps the earlier frame
C29_Witness ==
    /\ call.fn = "set_linear_pot_12"
    /\ call.masked = 0
    /\ ret = "false"
    /\ last.resets = 0
    /\ 7 \in m_fpga.written
    /\ m_shadow[7] = 5
    /\ m_fpga.reg[7] = 5

-----------------------------------------------------------------------------
(* Further properties of the structural validators (under SpecVal)         *)

HeaderValidated == call.fn = "header" /\ ret # "pending"

\* toc_count * 64 and toc_offset + toc_count * 64 in exact arithmetic: the
\* high half is not reduced, so it is 2^16 or more when 32 bits would wrap
ExactTocSize(header) == XMul(header.toc_count, toc_entry_struct_size)

ExactTocEnd(header) == XAdd(header.toc_offset, ExactTocSize(header))

-----------------------------------------------------------------------------
(* Agreement of the two entry points (checked under SpecPkg)               *)

\* the scratch buffer holds the largest payload of the file
ScratchHoldsEveryPayload(file, scratch) ==
    \A i \in 1..Len(file.toc) : Le32(file.toc[i].size, scratch.size)

\* C30: for the same package bytes and the same policy (verify_hashes,
\* verify_signature, public_key), with toc_count <= 16, a stream that
\* returns exactly the package bytes and a scratch buffer at least as large
\* as the largest payload, validate_vmprog_package and
\* validate_vmprog_package_stream return the same result code.
C30_EntryPointsAgree ==
    ( /\ Returned
      /\ call.fn = "validate_vmprog_package"
      /\ Le32(call.file.header.toc_count, V32(vmprog_stream_max_toc_entries))
      /\ ScratchHoldsEveryPayload(call.file, FullScratch) )
    => ret = validate_vmprog_package_stream(
                 NewIo(0, FALSE), call.file, call.file.size,
                 call.verify_hashes, call.verify_signature, call.public_key,
                 FullScratch).res

=============================================================================
